---- MODULE Spec2Model ----
(***************************************************************************)
(* Model of the hardware-emulation layer of PC-BASIC:                      *)
(*   machine.py  Memory (segmented address space, PEEK/POKE/BLOAD/BSAVE)   *)
(*   sound.py    Sound  (tone queues, PLAY / Music Macro Language)         *)
(***************************************************************************)
EXTENDS Integers, Sequences, FiniteSets, TLC

VARIABLES
    \* ---- machine.py, class Memory ----
    segment,          \* Memory.segment (DEF SEG register)
    _peek_values,     \* Memory._peek_values (pre-defined PEEK outputs)
    peek_values,      \* the peek_values argument handed to Memory.__init__
    tandy_syntax,     \* Memory.tandy_syntax
    protected,        \* data.program.protected
    run_mode,         \* interpreter.run_mode
    st,               \* backing stores: keyboard, fontdict, video and data memory
    screen,           \* the screen object read by _get_low_memory
    stream_attached,  \* devices.devices[...].stream is not None
    file,             \* the file written by BSAVE and read by BLOAD
    mres,             \* outcome of the last Memory statement
    msteps,           \* number of Memory statements executed
    \* ---- sound.py, class Sound ----
    tone_queue,       \* Sound.tone_queue: voices 0..2 and the noise channel 3
    unfinished_tasks, \* Queue.unfinished_tasks of each tone queue
    rtaken,           \* events the renderer has taken and not yet marked done
    message_queue,    \* Sound.message_queue
    noise_freq,       \* Sound.noise_freq
    capabilities,     \* Sound.capabilities
    sound_on,         \* Sound.sound_on
    foreground,       \* Sound.foreground
    play_state,       \* Sound.play_state
    spc,              \* where the interpreter is inside Sound
    sframe,           \* the suspended caller of wait_music / the stop_all cursor
    pl,               \* the locals of a running play()
    sres,             \* outcome of the last Sound operation
    burst,            \* per queue: puts since it was empty with no removal, or -1
    rlog,             \* per queue: the events put, received by the renderer, removed
    \* ---- machine.py, class MachinePorts ----
    last_scancode,    \* session.keyboard.last_scancode
    stick,            \* session.stick: is_firing, axis, decay()
    lpt_stream,       \* the status lines of the streams of LPT1: and LPT2:
    com_stream,       \* the streams of COM1: and COM2:: parameters, waiting, pins
    com_enable_baud_write, \* MachinePorts.com_enable_baud_write
    com_baud_divisor, \* MachinePorts.com_baud_divisor
    com_break,        \* MachinePorts.com_break
    ppc,              \* where the interpreter is inside wait_
    pframe,           \* the arguments of the running wait_
    pres              \* outcome of the last MachinePorts operation

mvars == <<segment, _peek_values, peek_values, tandy_syntax, protected, run_mode,
           st, screen, stream_attached, file, mres, msteps>>

svars == <<tone_queue, unfinished_tasks, rtaken, message_queue, noise_freq,
           capabilities, sound_on, foreground, play_state, spc, sframe, pl, sres, burst,
           rlog>>

pvars == <<last_scancode, stick, lpt_stream, com_stream, com_enable_baud_write,
           com_baud_divisor, com_break, ppc, pframe, pres>>

vars == <<mvars, svars, pvars>>

----------------------------------------------------------------------------
(* Bounds of the model *)
MaxOps == 3
MaxLen == 2
MaxBlockAddr == 787714

(* Program constants *)
video_segment == 40960
rom_segment == 61440
ram_font_segment == 49152
rom_font_addr == 64110
ram_font_addr == 1280
key_buffer_offset == 30
data_segment == 317
video_size == 131072
ring_length == 16
EOF_MARKER == 26
MAGIC_M == 253

(* Python None is the empty tuple, a present value v the 1-tuple <<v>> *)
None == <<>>
Some(v) == <<v>>
NoFile == <<>>

Max(a, b) == IF a >= b THEN a ELSE b
Min(a, b) == IF a <= b THEN a ELSE b

(* values.to_int(x, unsigned=True): a 16-bit value, negative input wrapped *)
ToUnsigned(x) == x % 65536

(* Python slices buf[:k] and buf[k:], negative k counting from the end *)
PySliceTo(buf, k) ==
    LET n == IF k >= 0 THEN Min(k, Len(buf)) ELSE Max(0, Len(buf) + k)
    IN  SubSeq(buf, 1, n)
PySliceFrom(buf, k) ==
    LET n == IF k >= 0 THEN Min(k, Len(buf)) ELSE Max(0, Len(buf) + k)
    IN  SubSeq(buf, n + 1, Len(buf))

----------------------------------------------------------------------------
(* External collaborators of Memory: video mode, data memory, keyboard ring *)

VideoMapped == {655360, 655361, 786430, 786431}
DataMapped == {5072, 5073}

VideoRead(s, a) == IF a \in DOMAIN s.video THEN s.video[a] ELSE 0
(* screen.mode.get_memory(addr, num_bytes) *)
ModeGetMemory(s, addr, num) ==
    IF num <= 0 THEN <<>> ELSE [i \in 1..num |-> VideoRead(s, addr + i - 1)]
(* screen.mode.set_memory(addr, bytes) *)
ModeSetMemory(s, addr, bytes) ==
    [s EXCEPT !.video = [a \in DOMAIN s.video |->
        IF a >= addr /\ a < addr + Len(bytes) THEN bytes[a - addr + 1] ELSE s.video[a]]]

(* data.get_memory(addr), data.set_memory(addr, val) *)
DataGetMemory(s, addr) == IF addr \in DOMAIN s.data THEN s.data[addr] ELSE -1
DataSetMemory(s, addr, val) ==
    IF addr \in DOMAIN s.data THEN [s EXCEPT !.data[addr] = val] ELSE s

(* keyboard.buf: stop(), ring_read, ring_write, ring_set_boundaries *)
BufStop(s) == s.stop
RingRead(s, index) == s.ring[index]
RingWrite(s, index, c, scan) == [s EXCEPT !.ring[index] = [c |-> c, scan |-> scan]]
RingSetBoundaries(s, newstart, newstop) ==
    [s EXCEPT !.start = newstart % ring_length, !.stop = newstop % ring_length]

----------------------------------------------------------------------------
(* Memory: implementation *)

(* font_8.fontdict: the font as loaded, and in the state the rows written since *)
InitFont == [ch \in 0..254 |-> [row \in 0..7 |-> (ch + row) % 256]]
NoFontWrites == [k \in {} |-> 0]
FontRow(s, char, row) ==
    IF <<char, row>> \in DOMAIN s.fontdict THEN s.fontdict[<<char, row>>]
    ELSE InitFont[char][row]
SetFontRow(s, char, row, value) ==
    LET key == <<char, row>>
        keys == IF value = InitFont[char][row] THEN DOMAIN s.fontdict \ {key}
                ELSE DOMAIN s.fontdict \cup {key}
    IN  [s EXCEPT !.fontdict = [k \in keys |-> IF k = key THEN value ELSE s.fontdict[k]]]

GetRomMemory(s, addr0) ==
    LET addr == addr0 - (rom_segment * 16 + rom_font_addr)
        char == addr \div 8
    IN  IF char > 127 \/ char < 0 THEN -1 ELSE FontRow(s, char, addr % 8)

GetFontMemory(s, addr0) ==
    LET addr == addr0 - (ram_font_segment * 16 + ram_font_addr)
        char == (addr \div 8) + 128
    IN  IF char < 128 \/ char > 254 THEN -1 ELSE FontRow(s, char, addr % 8)

SetFontMemory(s, addr0, value) ==
    LET addr == addr0 - (ram_font_segment * 16 + ram_font_addr)
        char == (addr \div 8) + 128
    IN  IF char < 128 \/ char > 254 THEN s
        ELSE SetFontRow(s, char, addr % 8, value)

GetVideoMemory(s, addr) == ModeGetMemory(s, addr, 1)[1]
SetVideoMemory(s, addr, val) == ModeSetMemory(s, addr, <<val>>)
GetVideoMemoryBlock(s, addr, length) == ModeGetMemory(s, addr, length)
SetVideoMemoryBlock(s, addr, some_bytes) == ModeSetMemory(s, addr, some_bytes)

B(b) == IF b THEN 1 ELSE 0

ModeNum(name) ==
    CASE name = "640x200x2" -> 6
      [] name = "160x200x16" -> 8
      [] name = "320x200x16pcjr" -> 9
      [] name = "640x200x4" -> 10
      [] name = "320x200x16" -> 13
      [] name = "640x200x16" -> 14
      [] name = "640x350x4" -> 15
      [] name = "640x350x16" -> 16
      [] name = "640x400x2" -> 64
      [] name = "320x200x4pcjr" -> 4
      [] OTHER -> 255

GetLowMemory(s, addr) ==
    LET koff == 1024 + key_buffer_offset IN
    CASE addr = 124 -> ram_font_addr % 256
      [] addr = 125 -> ram_font_addr \div 256
      [] addr = 126 -> ram_font_segment % 256
      [] addr = 127 -> ram_font_segment \div 256
      [] addr = 1040 -> IF screen.monitor = "mono" THEN 48 + 6 ELSE 32 + 6
      [] addr = 1041 ->
            2 * (B(stream_attached["COM1:"]) + B(stream_attached["COM2:"])) + 16 +
            64 * (B(stream_attached["LPT1:"]) + B(stream_attached["LPT2:"]) +
                  B(stream_attached["LPT3:"]))
      [] addr = 1047 -> s.mod
      [] addr = 1048 -> 0
      [] addr = 1049 -> s.keypad_ascii % 256
      [] addr = 1050 -> (s.start * 2 + key_buffer_offset) % 256
      [] addr = 1051 -> (s.start * 2 + key_buffer_offset) \div 256
      [] addr = 1052 -> (BufStop(s) * 2 + key_buffer_offset) % 256
      [] addr = 1053 -> (BufStop(s) * 2 + key_buffer_offset) \div 256
      [] addr \in koff..(koff + 31) ->
            LET index == (addr - koff) \div 2
                odd == (addr - koff) % 2
                e == RingRead(s, index)
            IN  IF odd = 1 THEN e.scan
                ELSE IF e.c = <<>> THEN 0
                ELSE e.c[1]
      [] addr = 1097 ->
            LET cval == screen.colorswitch % 2 IN
            IF screen.mode.is_text_mode
            THEN IF screen.capabilities \in {"mda", "ega_mono"} /\ screen.mode.width = 80
                 THEN 7
                 ELSE B(screen.mode.width = 40) * 2 + cval
            ELSE IF screen.mode.name = "320x200x4" THEN 4 + cval
            ELSE ModeNum(screen.mode.name)
      [] addr = 1098 -> screen.mode.width % 256
      [] addr = 1099 -> screen.mode.width \div 256
      [] addr = 1100 -> screen.mode.page_size % 256
      [] addr = 1101 -> screen.mode.page_size \div 256
      [] addr \in {1104 + 2 * i : i \in 0..7} -> screen.current_col - 1
      [] addr \in {1105 + 2 * i : i \in 0..7} -> screen.current_row - 1
      [] addr = 1120 -> screen.cursor.to_line
      [] addr = 1121 -> screen.cursor.from_line
      [] addr = 1122 -> screen.vpagenum
      [] addr = 1125 ->
            B(screen.mode.width = 80) * 1 + B(~screen.mode.is_text_mode) * 2 +
            screen.colorswitch * 4 + 8 + B(screen.mode.name = "640x200x2") * 16 +
            1 * 32
      [] addr = 1126 /\ screen.mode.name = "320x200x4" ->
            screen.palette0 + 32 * screen.cga4_palette_num
      [] addr = 1126 /\ screen.mode.name # "320x200x4" /\ screen.mode.is_text_mode ->
            screen.border_attr % 16
      [] OTHER -> -1

(* _set_low_memory that takes every address for the modifier byte *)
SetLowMemory_Any(s, addr, value) == [s EXCEPT !.mod = value]

SetLowMemory(s, addr, value) ==
    LET koff == 1024 + key_buffer_offset IN
    IF addr = 1047 THEN [s EXCEPT !.mod = value]
    ELSE IF addr = 1050
    THEN RingSetBoundaries(s, (value - key_buffer_offset) \div 2, BufStop(s))
    ELSE IF addr = 1052
    THEN RingSetBoundaries(s, s.start, (value - key_buffer_offset) \div 2)
    ELSE IF addr \in koff..(koff + 31)
    THEN LET index == (addr - koff) \div 2
             odd == (addr - koff) % 2
             e == RingRead(s, index)
         IN  IF odd = 1 THEN RingWrite(s, index, e.c, value)
             ELSE IF value \in {0, 224} THEN RingWrite(s, index, <<>>, e.scan)
             ELSE RingWrite(s, index, <<value>>, e.scan)
    ELSE s

(* The region whose handler _get_memory calls for addr (after the override test) *)
GetRegion(addr) ==
    IF addr >= rom_segment * 16 THEN "rom"
    ELSE IF addr >= ram_font_segment * 16 THEN "ram_font"
    ELSE IF addr >= video_segment * 16 THEN "video"
    ELSE IF addr >= data_segment * 16 THEN "data"
    ELSE IF addr >= 0 THEN "low"
    ELSE "none"

(* _set_memory with the video test ahead of the RAM font test *)
SetRegion_VideoFirst(addr) ==
    IF addr >= rom_segment * 16 THEN "rom"
    ELSE IF addr >= video_segment * 16 THEN "video"
    ELSE IF addr >= ram_font_segment * 16 THEN "ram_font"
    ELSE IF addr >= data_segment * 16 THEN "data"
    ELSE IF addr >= 0 THEN "low"
    ELSE "none"

(* The region whose handler _set_memory calls for addr *)
SetRegion(addr) ==
    IF addr >= rom_segment * 16 THEN "rom"
    ELSE IF addr >= ram_font_segment * 16 THEN "ram_font"
    ELSE IF addr >= video_segment * 16 THEN "video"
    ELSE IF addr >= data_segment * 16 THEN "data"
    ELSE IF addr >= 0 THEN "low"
    ELSE "none"

(* _get_memory that hands on what the low-memory handler returns, without max(0, .) *)
GetMemory_Sentinel(s, addr) ==
    IF addr \in DOMAIN _peek_values THEN _peek_values[addr]
    ELSE IF GetRegion(addr) = "low" THEN GetLowMemory(s, addr)
    ELSE 0

GetMemory(s, addr) ==
    IF addr \in DOMAIN _peek_values THEN _peek_values[addr]
    ELSE LET r == GetRegion(addr) IN
         CASE r = "rom" -> Max(0, GetRomMemory(s, addr))
           [] r = "ram_font" -> Max(0, GetFontMemory(s, addr))
           [] r = "video" -> Max(0, GetVideoMemory(s, addr))
           [] r = "data" -> Max(0, DataGetMemory(s, addr))
           [] r = "low" -> Max(0, GetLowMemory(s, addr))
           [] OTHER -> 0

SetMemory(s, addr, val) ==
    LET r == SetRegion(addr) IN
    CASE r = "rom" -> s
      [] r = "ram_font" -> SetFontMemory(s, addr, val)
      [] r = "video" -> SetVideoMemory(s, addr, val)
      [] r = "data" -> DataSetMemory(s, addr, val)
      [] r = "low" -> SetLowMemory(s, addr, val)
      [] OTHER -> s

GetMemoryBlock(s, addr, length) ==
    LET in_video == addr >= video_segment * 16
        video_len == video_size - (addr - video_segment * 16)
        block == IF in_video THEN GetVideoMemoryBlock(s, addr, Min(length, video_len))
                 ELSE <<>>
        addr2 == IF in_video THEN addr + video_len ELSE addr
        length2 == IF in_video THEN length - video_len ELSE length
    IN  block \o [i \in 1..length2 |-> Max(0, GetMemory(s, addr2 + i - 1))]

(* the loop "for a in range(len(buf)): _set_memory(addr + a, buf[a])" over lo..hi *)
RECURSIVE SetMemoryLoop(_, _, _, _, _)
SetMemoryLoop(s, addr, buf, lo, hi) ==
    IF lo > hi THEN s
    ELSE IF lo = hi THEN SetMemory(s, addr + lo - 1, buf[lo])
    ELSE LET mid == (lo + hi) \div 2
             left == SetMemoryLoop(s, addr, buf, lo, mid)
         IN  IF left = left THEN SetMemoryLoop(left, addr, buf, mid + 1, hi) ELSE s

SetMemoryBlock(s, addr, buf) ==
    LET in_video == addr >= video_segment * 16
        video_len == video_size - (addr - video_segment * 16)
        s1 == IF in_video THEN SetVideoMemoryBlock(s, addr, PySliceTo(buf, video_len))
              ELSE s
        addr2 == IF in_video THEN addr + video_len ELSE addr
        buf2 == IF in_video THEN PySliceFrom(buf, video_len) ELSE buf
    IN  SetMemoryLoop(s1, addr2, buf2, 1, Len(buf2))

----------------------------------------------------------------------------
(* Memory: statements *)

(* the protection test without the run-mode exemption *)
ProtectionFails_NoRunMode == protected

ProtectionFails == protected /\ ~run_mode

NoResult == [op |-> "none", addr |-> -1, val |-> -1, err |-> "", region |-> "none",
             result |-> <<>>, length |-> -1, opened |-> FALSE]

(* PEEK *)
peek_(num) ==
    /\ msteps < MaxOps
    /\ msteps' = msteps + 1
    /\ IF ProtectionFails
       THEN mres' = [NoResult EXCEPT !.op = "peek", !.err = "IFC"]
       ELSE LET addr == ToUnsigned(num) + segment * 16 IN
            mres' = [NoResult EXCEPT !.op = "peek", !.addr = addr,
                        !.region = IF addr \in DOMAIN _peek_values THEN "override"
                                   ELSE GetRegion(addr),
                        !.result = <<GetMemory(st, addr)>>]
    /\ UNCHANGED <<svars, pvars, segment, _peek_values, peek_values, tandy_syntax, protected,
                   run_mode, st, screen, stream_attached, file>>

(* poke_ with a range check that only tests the upper limit *)
PokeOutcome_UpperOnly(num, val) ==
    LET addr == ToUnsigned(num) + segment * 16 IN
    IF ProtectionFails
    THEN [err |-> "IFC", addr |-> -1, region |-> "none", st |-> st]
    ELSE IF val > 255
    THEN [err |-> "OUT_OF_RANGE", addr |-> -1, region |-> "none", st |-> st]
    ELSE [err |-> "", addr |-> addr, region |-> SetRegion(addr),
          st |-> SetMemory(st, addr, val % 256)]

(* POKE: the error raised, the address written and the stores afterwards *)
PokeOutcome(num, val) ==
    LET addr0 == ToUnsigned(num)
        addr == (IF addr0 < 0 THEN addr0 + 65536 ELSE addr0) + segment * 16 IN
    IF ProtectionFails
    THEN [err |-> "IFC", addr |-> -1, region |-> "none", st |-> st]
    ELSE IF val < 0 \/ val > 255
    THEN [err |-> "OUT_OF_RANGE", addr |-> -1, region |-> "none", st |-> st]
    ELSE [err |-> "", addr |-> addr, region |-> SetRegion(addr),
          st |-> SetMemory(st, addr, val)]

poke_(num, val) ==
    /\ msteps < MaxOps
    /\ msteps' = msteps + 1
    /\ LET o == PokeOutcome(num, val) IN
       /\ mres' = [NoResult EXCEPT !.op = "poke", !.val = val, !.err = o.err,
                      !.addr = o.addr, !.region = o.region]
       /\ st' = o.st
    /\ UNCHANGED <<svars, pvars, segment, _peek_values, peek_values, tandy_syntax, protected,
                   run_mode, screen, stream_attached, file>>

(* DEF SEG that stores its argument as it is *)
def_seg_NoWrap(seg) ==
    /\ msteps < MaxOps
    /\ msteps' = msteps + 1
    /\ segment' = IF seg = None THEN data_segment ELSE seg[1]
    /\ mres' = [NoResult EXCEPT !.op = "def_seg", !.result = seg]
    /\ UNCHANGED <<svars, pvars, _peek_values, peek_values, tandy_syntax, protected, run_mode, st,
                   screen, stream_attached, file>>

(* DEF SEG *)
def_seg_(seg) ==
    /\ msteps < MaxOps
    /\ msteps' = msteps + 1
    /\ segment' = IF seg = None THEN data_segment
                  ELSE IF seg[1] < 0 THEN seg[1] + 65536 ELSE seg[1]
    /\ mres' = [NoResult EXCEPT !.op = "def_seg", !.result = seg]
    /\ UNCHANGED <<svars, pvars, _peek_values, peek_values, tandy_syntax, protected, run_mode, st,
                   screen, stream_attached, file>>

(* struct.pack('<H', x) *)
PackH(x) == <<x % 256, x \div 256>>

(* BSAVE *)
bsave_(off, len) ==
    /\ msteps < MaxOps
    /\ msteps' = msteps + 1
    /\ IF ProtectionFails
       THEN /\ mres' = [NoResult EXCEPT !.op = "bsave", !.err = "IFC"]
            /\ file' = file
       ELSE LET offset == ToUnsigned(off)
                length == ToUnsigned(len)
                addr == segment * 16 + offset
                block == GetMemoryBlock(st, addr, length)
                tail == IF tandy_syntax
                        THEN <<MAGIC_M>> \o PackH(segment) \o PackH(offset) \o PackH(length)
                        ELSE <<>>
            IN  /\ addr <= MaxBlockAddr
                /\ mres' = [NoResult EXCEPT !.op = "bsave", !.addr = addr,
                               !.length = length, !.result = block, !.opened = TRUE]
                /\ file' = Some([seg |-> segment, offset |-> offset, length |-> length,
                                 data |-> block \o tail \o <<EOF_MARKER>>])
    /\ UNCHANGED <<svars, pvars, segment, _peek_values, peek_values, tandy_syntax, protected,
                   run_mode, st, screen, stream_attached>>

(* BLOAD *)
bload_(off) ==
    /\ msteps < MaxOps
    /\ file # NoFile
    /\ msteps' = msteps + 1
    /\ IF ProtectionFails
       THEN /\ mres' = [NoResult EXCEPT !.op = "bload", !.err = "IFC"]
            /\ st' = st
       ELSE LET seg == file[1].seg
                offset == IF off = None THEN file[1].offset ELSE ToUnsigned(off[1])
                buf0 == file[1].data
                buf1 == IF buf0 # <<>> /\ buf0[Len(buf0)] = EOF_MARKER
                        THEN PySliceTo(buf0, -1) ELSE buf0
                buf == IF tandy_syntax THEN PySliceTo(buf1, -7) ELSE buf1
                addr == seg * 16 + offset
            IN  /\ addr <= MaxBlockAddr
                /\ mres' = [NoResult EXCEPT !.op = "bload", !.addr = addr,
                               !.result = buf, !.opened = TRUE]
                /\ st' = SetMemoryBlock(st, addr, buf)
    /\ UNCHANGED <<svars, pvars, segment, _peek_values, peek_values, tandy_syntax, protected,
                   run_mode, screen, stream_attached, file>>

(* The interpreter enters or leaves run mode; a protected program is loaded or NEW *)
SetRunMode(b) ==
    /\ run_mode # b
    /\ run_mode' = b
    /\ UNCHANGED <<svars, pvars, segment, _peek_values, peek_values, tandy_syntax, protected, st,
                   screen, stream_attached, file, mres, msteps>>

SetProtected(b) ==
    /\ protected # b
    /\ protected' = b
    /\ UNCHANGED <<svars, pvars, segment, _peek_values, peek_values, tandy_syntax, run_mode, st,
                   screen, stream_attached, file, mres, msteps>>

----------------------------------------------------------------------------
(* Inputs *)
OffArgs == {-2, -1, 0, 1, 1047, 1054, 5071, 64110}
SegArgs == {None} \cup {Some(v) : v \in {0, 36864, -24576, 45056, 49152, 49232, 61440}}
PokeVals == {-1, 0, 255, 256}
LenArgs == 0..MaxLen
BlockOffArgs == {-1, 0, 1}
BloadOffArgs == {None, Some(1)}

TextScreen ==
    [monitor |-> "rgb", capabilities |-> "vga", colorswitch |-> 1,
     mode |-> [is_text_mode |-> TRUE, width |-> 80, name |-> "text80", page_size |-> 4096],
     current_col |-> 1, current_row |-> 1, cursor |-> [from_line |-> 6, to_line |-> 7],
     vpagenum |-> 0, palette0 |-> 0, cga4_palette_num |-> 1, border_attr |-> 0]
CgaScreen ==
    [monitor |-> "rgb", capabilities |-> "cga", colorswitch |-> 1,
     mode |-> [is_text_mode |-> FALSE, width |-> 40, name |-> "320x200x4",
               page_size |-> 16384],
     current_col |-> 1, current_row |-> 1, cursor |-> [from_line |-> 6, to_line |-> 7],
     vpagenum |-> 0, palette0 |-> 0, cga4_palette_num |-> 1, border_attr |-> 0]

DevNames == {"COM1:", "COM2:", "LPT1:", "LPT2:", "LPT3:"}

EmptySlot == [c |-> <<>>, scan |-> 0]
EmptyRing == [i \in 0..(ring_length - 1) |-> EmptySlot]
OneKeyRing == [i \in 0..(ring_length - 1) |->
                  IF i = 0 THEN [c |-> <<0, 72>>, scan |-> 72] ELSE EmptySlot]

(* Two machines: a plain one and a Tandy with CGA graphics, attached COM1:/LPT1:
   streams, a key in the typeahead ring and a peek_values option *)
MachineConfigs ==
    {[tandy |-> FALSE, screen |-> TextScreen, ring |-> EmptyRing, streams |-> {},
      peek_values |-> <<>>],
     [tandy |-> TRUE, screen |-> CgaScreen, ring |-> OneKeyRing,
      streams |-> {"COM1:", "LPT1:"}, peek_values |-> [a \in {1047} |-> 99]]}

(* Memory.__init__ *)
MemInitOf(cfg) ==
        /\ segment = data_segment
        /\ _peek_values = <<>>
        /\ peek_values = cfg.peek_values
        /\ tandy_syntax = cfg.tandy
        /\ protected = FALSE
        /\ run_mode = FALSE
        /\ st = [mod |-> 0, keypad_ascii |-> 0, start |-> 0,
                 stop |-> IF cfg.ring[0].c = <<>> THEN 0 ELSE 1, ring |-> cfg.ring,
                 fontdict |-> NoFontWrites,
                 video |-> [a \in VideoMapped |-> 0],
                 data |-> [a \in DataMapped |-> 0]]
        /\ screen = cfg.screen
        /\ stream_attached = [d \in DevNames |-> d \in cfg.streams]
        /\ file = NoFile
        /\ mres = NoResult
        /\ msteps = 0

MemInit == \E cfg \in MachineConfigs : MemInitOf(cfg)

MemNext ==
    \/ \E num \in OffArgs : peek_(num)
    \/ \E num \in OffArgs, val \in PokeVals : poke_(num, val)
    \/ \E seg \in SegArgs : def_seg_(seg)
    \/ \E off \in BlockOffArgs, len \in LenArgs : bsave_(off, len)
    \/ \E off \in BloadOffArgs : bload_(off)
    \/ \E b \in BOOLEAN : SetRunMode(b)
    \/ \E b \in BOOLEAN : SetProtected(b)

MemFixed == \E cfg \in MachineConfigs : ~cfg.tandy /\ MemInitOf(cfg)

----------------------------------------------------------------------------
(* MachinePorts *)

(* Python's & ^ | on non-negative integers *)
RECURSIVE BitAnd(_, _)
BitAnd(a, b) ==
    IF a = 0 \/ b = 0 THEN 0
    ELSE (a % 2) * (b % 2) + 2 * BitAnd(a \div 2, b \div 2)
RECURSIVE BitXor(_, _)
BitXor(a, b) ==
    IF a = 0 THEN b ELSE IF b = 0 THEN a
    ELSE ((a + b) % 2) + 2 * BitXor(a \div 2, b \div 2)
RECURSIVE BitOr(_, _)
BitOr(a, b) ==
    IF a = 0 THEN b ELSE IF b = 0 THEN a
    ELSE Max(a % 2, b % 2) + 2 * BitOr(a \div 2, b \div 2)

(* a port test that takes every device to have a stream *)
HasStream_Always(dev) == TRUE

(* "stream is None" negated: the device has a stream attached *)
HasStream(dev) == stream_attached[dev]

(* port numbers *)
PORT_KEYBOARD == 96
PORT_GAME == 513
PORT_LPT1 == 888
PORT_LPT2 == 632
COM1_BASE == 1016
COM2_BASE == 760
(* joystick_time_factor = 75. / 255. as numerator and denominator *)
JOY_NUM == 75
JOY_DEN == 255

lpt_device == <<"LPT1:", "LPT2:">>
com_device == <<"COM1:", "COM2:">>
(* self.com_base: base address -> index of the port *)
com_base == <<[base_addr |-> COM1_BASE, com_port_nr |-> 0],
              [base_addr |-> COM2_BASE, com_port_nr |-> 1]>>

ParityBits(parity) ==
    CASE parity = "S" -> 56
      [] parity = "M" -> 40
      [] parity = "E" -> 24
      [] parity = "O" -> 8
      [] parity = "N" -> 0

(* the value of the serial registers of one port, None when it is not one of them *)
ComRegister(com_port_nr, base_addr, port) ==
    LET stream == com_stream[com_port_nr] IN
    IF port = base_addr + 3
    THEN Some(B(com_enable_baud_write[com_port_nr]) * 128
              + B(com_break[com_port_nr]) * 64
              + ParityBits(stream.parity)
              + (IF stream.stopbits > 1 THEN 4 ELSE 0)
              + stream.bytesize - 5)
    ELSE IF port = base_addr + 5
    THEN Some((1 - B(stream.out_waiting)) * 96 + B(stream.in_waiting))
    ELSE IF port = base_addr + 6
    THEN Some(B(stream.cd) * 128 + B(stream.ri) * 64 + B(stream.dsr) * 32
              + B(stream.cts) * 16)
    ELSE None

(* "for base_addr, com_port_nr in self.com_base.iteritems()" from entry i on *)
RECURSIVE ComLoop(_, _)
ComLoop(i, port) ==
    IF i > Len(com_base) THEN 0
    ELSE LET e == com_base[i]
             r == ComRegister(e.com_port_nr, e.base_addr, port)
         IN  IF ~HasStream(com_device[e.com_port_nr + 1]) THEN ComLoop(i + 1, port)
             ELSE IF r # None THEN r[1]
             ELSE ComLoop(i + 1, port)

(* MachinePorts.inp *)
inp(port) ==
    IF port = PORT_KEYBOARD THEN last_scancode
    ELSE IF port = PORT_GAME
    THEN LET fire == B(~stick.is_firing[1][1]) * 64 + B(~stick.is_firing[1][2]) * 32
                     + B(~stick.is_firing[2][1]) * 16 + B(~stick.is_firing[2][2]) * 128
             axis(i, j, bit) ==
                 IF stick.decay * JOY_DEN < stick.axis[i][j] * JOY_NUM THEN bit ELSE 0
         IN  fire + axis(1, 1, 4) + axis(1, 2, 2) + axis(2, 1, 1) + axis(2, 2, 8)
    ELSE IF port \in {PORT_LPT1 + 1, PORT_LPT2 + 1}
    THEN LET lpt_port_nr == IF port >= PORT_LPT1 THEN 0 ELSE 1
             status == lpt_stream[lpt_port_nr]
         IN  IF ~HasStream(lpt_device[lpt_port_nr + 1]) THEN 0
             ELSE BitOr(BitOr(BitOr(BitOr(B(status.busy) * 128, B(status.ack) * 64),
                                    B(status.paper) * 32), B(status.select) * 16),
                        B(status.err) * 8)
    ELSE ComLoop(1, port)

(* the loop test of wait_ read as "(inp ^ xorer) & (ander == 0)" *)
WaitLoopCond_MaskCompared(value, ander, xorer) ==
    BitAnd(BitXor(value, xorer), B(ander = 0)) # 0

(* the loop test of wait_: "(self.inp(addr) ^ xorer) & ander == 0" *)
WaitLoopCond(value, ander, xorer) == BitAnd(BitXor(value, xorer), ander) = 0

NoPortFrame == [addr |-> 0, ander |-> 0, xorer |-> 0]
NoPortResult == [op |-> "none", reads |-> 0, yields |-> 0, last |-> -1, addr |-> -1,
                 val |-> -1, calls |-> {}, err |-> ""]

(* wait_: entry *)
wait_begin(addr, ander, xorer) ==
    /\ ppc = "idle"
    /\ ppc' = "wait_test"
    /\ pframe' = [addr |-> addr, ander |-> ander, xorer |-> xorer]
    /\ pres' = [NoPortResult EXCEPT !.op = "wait"]
    /\ UNCHANGED <<mvars, svars, last_scancode, stick, lpt_stream, com_stream,
                   com_enable_baud_write, com_baud_divisor, com_break>>

(* wait_: the port is read and the loop test evaluated *)
wait_test(maxreads) ==
    /\ ppc = "wait_test"
    /\ pres.reads < maxreads
    /\ LET value == inp(pframe.addr) IN
       /\ pres' = [pres EXCEPT !.reads = @ + 1, !.last = value,
                      !.op = IF WaitLoopCond(value, pframe.ander, pframe.xorer)
                             THEN "wait" ELSE "wait_return"]
       /\ ppc' = IF WaitLoopCond(value, pframe.ander, pframe.xorer)
                 THEN "wait_events" ELSE "idle"
    /\ UNCHANGED <<mvars, svars, last_scancode, stick, lpt_stream, com_stream,
                   com_enable_baud_write, com_baud_divisor, com_break, pframe>>

(* wait_: self.session.events.wait() *)
wait_events ==
    /\ ppc = "wait_events"
    /\ ppc' = "wait_test"
    /\ pres' = [pres EXCEPT !.yields = @ + 1]
    /\ UNCHANGED <<mvars, svars, last_scancode, stick, lpt_stream, com_stream,
                   com_enable_baud_write, com_baud_divisor, com_break, pframe>>

(* the devices behind the ports change state *)
KeyEvent(scancode) ==
    /\ last_scancode' = scancode
    /\ UNCHANGED <<mvars, svars, stick, lpt_stream, com_stream, com_enable_baud_write,
                   com_baud_divisor, com_break, ppc, pframe, pres>>

StickEvent(fire, decay) ==
    /\ stick' = [stick EXCEPT !.is_firing[1][1] = fire, !.decay = decay]
    /\ UNCHANGED <<mvars, svars, last_scancode, lpt_stream, com_stream,
                   com_enable_baud_write, com_baud_divisor, com_break, ppc, pframe, pres>>

LptEvent(lpt_port_nr, busy) ==
    /\ lpt_stream' = [lpt_stream EXCEPT ![lpt_port_nr].busy = busy]
    /\ UNCHANGED <<mvars, svars, last_scancode, stick, com_stream,
                   com_enable_baud_write, com_baud_divisor, com_break, ppc, pframe, pres>>

ComEvent(com_port_nr, in_waiting) ==
    /\ com_stream' = [com_stream EXCEPT ![com_port_nr].in_waiting = in_waiting]
    /\ UNCHANGED <<mvars, svars, last_scancode, stick, lpt_stream,
                   com_enable_baud_write, com_baud_divisor, com_break, ppc, pframe, pres>>

(* the state out_ works on, with the device calls made and the exception raised *)
PortState ==
    [ebw |-> com_enable_baud_write, div |-> com_baud_divisor, brk |-> com_break,
     com |-> com_stream, lpt |-> lpt_stream, decay |-> stick.decay,
     calls |-> {}, err |-> ""]

(* the parity table of out_: {0x38:'S', 0x28:'M', 0x18:'E', 0x8:'O', 0:'N'} *)
ParityOf(bits) ==
    CASE bits = 56 -> Some("S")
      [] bits = 40 -> Some("M")
      [] bits = 24 -> Some("E")
      [] bits = 8 -> Some("O")
      [] bits = 0 -> Some("N")
      [] OTHER -> None

(* a divisor write that adds the byte without masking the old one out *)
BaudDivisor_Unmasked(divisor, low, val) ==
    IF low THEN divisor + val ELSE val * 256 + divisor

(* out_: the new baud divisor after a write of its low or its high byte *)
BaudDivisor(divisor, low, val) ==
    IF low THEN BitAnd(divisor, 65280) + val
    ELSE val * 256 + BitAnd(divisor, 255)

(* a line-control write whose bit 7 sets and clears the baud-write latch *)
ComOut_LatchFollows(p, com_port_nr, base_addr, addr, val) ==
    LET n == com_port_nr
        dev == com_device[n + 1]
    IN
    IF ~HasStream(dev) THEN p
    ELSE IF addr \in {base_addr, base_addr + 1} /\ p.ebw[n]
    THEN LET divisor == BaudDivisor(p.div[n], addr = base_addr, val)
         IN  IF divisor # 0
             THEN [p EXCEPT !.div[n] = divisor,
                            !.com[n].baudrate = 115200 \div divisor,
                            !.calls = @ \cup {<<dev, "get_params">>, <<dev, "set_params">>}]
             ELSE [p EXCEPT !.div[n] = divisor]
    ELSE IF addr = base_addr + 3
    THEN LET p1 == [p EXCEPT !.ebw[n] = BitAnd(val, 128) # 0,
                             !.brk[n] = BitAnd(val, 64) # 0,
                             !.calls = @ \cup {<<dev, "get_params">>}]
             parity == ParityOf(BitAnd(val, 56))
         IN  IF parity = None THEN [p1 EXCEPT !.err = "KeyError"]
             ELSE [p1 EXCEPT !.com[n].parity = parity[1],
                             !.com[n].stopbits = IF BitAnd(val, 4) # 0 THEN 2 ELSE 1,
                             !.com[n].bytesize = BitAnd(val, 3) + 5,
                             !.com[n].brk = p1.brk[n],
                             !.calls = @ \cup {<<dev, "set_params">>, <<dev, "set_pins">>}]
    ELSE IF addr = base_addr + 4
    THEN [p EXCEPT !.com[n].rts = BitAnd(val, 2) # 0,
                   !.com[n].dtr = BitAnd(val, 1) # 0,
                   !.calls = @ \cup {<<dev, "set_pins">>}]
    ELSE p

(* out_: the body of the loop over com_base for one serial port *)
ComOut(p, com_port_nr, base_addr, addr, val) ==
    LET n == com_port_nr
        dev == com_device[n + 1]
    IN
    IF ~HasStream(dev) THEN p
    ELSE IF addr \in {base_addr, base_addr + 1} /\ p.ebw[n]
    THEN LET divisor == BaudDivisor(p.div[n], addr = base_addr, val)
         IN  IF divisor # 0
             THEN [p EXCEPT !.div[n] = divisor,
                            !.com[n].baudrate = 115200 \div divisor,
                            !.calls = @ \cup {<<dev, "get_params">>, <<dev, "set_params">>}]
             ELSE [p EXCEPT !.div[n] = divisor]
    ELSE IF addr = base_addr + 3
    THEN LET p1 == [p EXCEPT !.ebw[n] = IF BitAnd(val, 128) # 0 THEN TRUE ELSE @,
                             !.brk[n] = BitAnd(val, 64) # 0,
                             !.calls = @ \cup {<<dev, "get_params">>}]
             parity == ParityOf(BitAnd(val, 56))
         IN  IF parity = None THEN [p1 EXCEPT !.err = "KeyError"]
             ELSE [p1 EXCEPT !.com[n].parity = parity[1],
                             !.com[n].stopbits = IF BitAnd(val, 4) # 0 THEN 2 ELSE 1,
                             !.com[n].bytesize = BitAnd(val, 3) + 5,
                             !.com[n].brk = p1.brk[n],
                             !.calls = @ \cup {<<dev, "set_params">>, <<dev, "set_pins">>}]
    ELSE IF addr = base_addr + 4
    THEN [p EXCEPT !.com[n].rts = BitAnd(val, 2) # 0,
                   !.com[n].dtr = BitAnd(val, 1) # 0,
                   !.calls = @ \cup {<<dev, "set_pins">>}]
    ELSE p

(* out_: "for base_addr, com_port_nr in self.com_base.iteritems()" from entry i on *)
RECURSIVE ComOutLoop(_, _, _, _)
ComOutLoop(p, i, addr, val) ==
    IF i > Len(com_base) \/ p.err # "" THEN p
    ELSE ComOutLoop(ComOut(p, com_base[i].com_port_nr, com_base[i].base_addr, addr, val),
                    i + 1, addr, val)

(* out_: what it does to the ports, the devices and the joystick *)
OutResult(p, addr, val) ==
    IF addr = PORT_GAME
    THEN [p EXCEPT !.decay = 0, !.calls = {<<"stick", "reset_decay">>}]
    ELSE IF addr = 965 THEN [p EXCEPT !.calls = {<<"screen", "set_plane_mask">>}]
    ELSE IF addr = 975 THEN [p EXCEPT !.calls = {<<"screen", "set_plane">>}]
    ELSE IF addr = 984 THEN [p EXCEPT !.calls = {<<"screen", "set_colorburst">>}]
    ELSE IF addr \in {PORT_LPT1, PORT_LPT1 + 2, PORT_LPT2, PORT_LPT2 + 2}
    THEN LET lpt_port_nr == IF addr >= PORT_LPT1 THEN 0 ELSE 1
             base_addr == IF lpt_port_nr = 0 THEN PORT_LPT1 ELSE PORT_LPT2
             dev == lpt_device[lpt_port_nr + 1]
         IN  IF ~HasStream(dev) THEN p
             ELSE IF addr - base_addr = 0
             THEN [p EXCEPT !.lpt[lpt_port_nr].written = val,
                            !.calls = {<<dev, "write">>}]
             ELSE [p EXCEPT !.lpt[lpt_port_nr].control =
                                <<BitAnd(val, 8), BitAnd(val, 4), BitAnd(val, 2),
                                  BitAnd(val, 1)>>,
                            !.calls = {<<dev, "set_control">>}]
    ELSE ComOutLoop(p, 1, addr, val)

(* out_: the ports, the devices and the joystick become what the write made
   of them *)
OutStore(addr, val, r) ==
    /\ com_enable_baud_write' = r.ebw
    /\ com_baud_divisor' = r.div
    /\ com_break' = r.brk
    /\ com_stream' = r.com
    /\ lpt_stream' = r.lpt
    /\ stick' = [stick EXCEPT !.decay = r.decay]
    /\ pres' = [NoPortResult EXCEPT !.op = "out", !.addr = addr, !.val = val,
                                    !.calls = r.calls, !.err = r.err]

(* MachinePorts.out_ *)
out_(addr, val) ==
    /\ ppc = "idle"
    /\ OutStore(addr, val, OutResult(PortState, addr, val))
    /\ UNCHANGED <<mvars, svars, last_scancode, ppc, pframe>>

(* MachinePorts.inp_ *)
inp_(num) ==
    /\ ppc = "idle"
    /\ LET port == ToUnsigned(num)
           value == inp(port)
       IN  pres' = [NoPortResult EXCEPT !.op = "inp", !.addr = port,
                       !.last = IF value < 0 THEN value + 65536 ELSE value]
    /\ UNCHANGED <<mvars, svars, last_scancode, stick, lpt_stream, com_stream,
                   com_enable_baud_write, com_baud_divisor, com_break, ppc, pframe>>

(* MachinePorts.__init__ and the devices as they start *)
PortsInit ==
    /\ last_scancode = 0
    /\ stick = [is_firing |-> <<<<FALSE, FALSE>>, <<FALSE, FALSE>>>>,
                axis |-> <<<<128, 128>>, <<128, 128>>>>, decay |-> 0]
    /\ lpt_stream = [n \in 0..1 |-> [busy |-> FALSE, ack |-> FALSE, paper |-> FALSE,
                                     select |-> TRUE, err |-> FALSE,
                                     written |-> -1, control |-> <<>>]]
    /\ com_stream = [n \in 0..1 |-> [baudrate |-> 300, parity |-> "E", bytesize |-> 7,
                                     stopbits |-> 1, in_waiting |-> FALSE,
                                     out_waiting |-> FALSE, cd |-> FALSE, ri |-> FALSE,
                                     dsr |-> FALSE, cts |-> FALSE, brk |-> FALSE,
                                     rts |-> FALSE, dtr |-> FALSE]]
    /\ com_enable_baud_write = [n \in 0..1 |-> FALSE]
    /\ com_baud_divisor = [n \in 0..1 |-> 0]
    /\ com_break = [n \in 0..1 |-> FALSE]
    /\ ppc = "idle"
    /\ pframe = NoPortFrame
    /\ pres = NoPortResult

----------------------------------------------------------------------------
(* Sound: frequencies are integers in units of 1/4096 Hz, durations rationals *)

FREQ_UNIT == 4096
Hz(x) == x * FREQ_UNIT
(* base_freq / 4, the lowest noise source frequency: 3579545/1024/4 Hz *)
base_freq_div4 == 3579545

Voices == 0..2
Queues == 0..3

RECURSIVE Gcd(_, _)
Gcd(a, b) == IF b = 0 THEN a ELSE Gcd(b, a % b)
Abs(x) == IF x < 0 THEN -x ELSE x
(* the rational n/d in lowest terms, d > 0 *)
Rat(n, d) ==
    LET g == Gcd(Abs(n), Abs(d))
        sg == IF d < 0 THEN -1 ELSE 1
    IN  [n |-> sg * (n \div g), d |-> sg * (d \div g)]
RatMul(x, y) == Rat(x.n * y.n, x.d * y.d)
RatAdd(x, y) == Rat(x.n * y.d + y.n * x.d, x.d * y.d)
RatSub(x, y) == Rat(x.n * y.d - y.n * x.d, x.d * y.d)
RatLess(x, y) == x.n * y.d < y.n * x.d
RatMax(x, y) == IF RatLess(x, y) THEN y ELSE x
Zero == Rat(0, 1)
One == Rat(1, 1)

(* class PlayState *)
PlayState == [octave |-> 4, speed |-> Rat(7, 8), tempo |-> Rat(2, 1),
              length |-> Rat(1, 4), volume |-> 15]

NoEvent == [type |-> "none", frequency |-> 0, duration |-> Zero, fill |-> One,
            loop |-> FALSE, volume |-> 0, white |-> FALSE]
Tone(frequency, duration, fill, loop, volume) ==
    [type |-> "AUDIO_TONE", frequency |-> frequency, duration |-> duration,
     fill |-> fill, loop |-> loop, volume |-> volume, white |-> FALSE]
Noise(white, frequency, duration, fill, loop, volume) ==
    [type |-> "AUDIO_NOISE", frequency |-> frequency, duration |-> duration,
     fill |-> fill, loop |-> loop, volume |-> volume, white |-> white]

NoFrame == [ret |-> "idle", wait_length |-> 0, q |-> 0]
NoPlay == [gmls |-> <<<<>>, <<>>, <<>>>>, pos |-> <<1, 1, 1>>, voices |-> <<>>,
           vidx |-> 1, next_oct |-> 0, total_time |-> <<Zero, Zero, Zero, Zero>>,
           padv |-> 0, pass_start |-> {}, pass_seen |-> {}, skipped |-> {},
           oct_base |-> <<4, 4, 4>>, shifts |-> <<<<>>, <<>>, <<>>>>, nplays |-> 0,
           enq |-> <<<<>>, <<>>, <<>>>>]
NoSound == [op |-> "none", voice |-> -1, err |-> "", event |-> NoEvent,
            base |-> -1, shifts |-> <<>>, semitone |-> -1]

(* the log of the events put on each queue, received by the renderer and removed
   by stop_all_sound; it is kept only where a specification switches it on *)
NoLog == [on |-> FALSE, sent |-> [v \in Queues |-> <<>>],
          got |-> [v \in Queues |-> <<>>], cut |-> [v \in Queues |-> <<>>]]
LogSent(v, e) == IF rlog.on THEN [rlog EXCEPT !.sent[v] = Append(@, e)] ELSE rlog
LogGot(v, e) == IF rlog.on THEN [rlog EXCEPT !.got[v] = Append(@, e)] ELSE rlog
LogCut(v, e) == IF rlog.on THEN [rlog EXCEPT !.cut[v] = Append(@, e)] ELSE rlog

(* the number of puts of a burst after a put / after a removal *)
BurstPut(v) == [burst EXCEPT ![v] = IF @ >= 0 THEN @ + 1 ELSE @]
BurstGet(v, left) == [burst EXCEPT ![v] = IF left = 0 THEN 0 ELSE -1]

(* queue_length with no allowance for the pre-play buffer *)
QueueLength_Raw(voice) == Len(tone_queue[voice])

(* Sound.queue_length *)
QueueLength(voice) == Max(0, Len(tone_queue[voice]) - 1)

(* Sound.is_playing *)
IsPlaying(voice) == QueueLength(voice) # 0 \/ unfinished_tasks[voice] # 0

(* a wait_music that never waits *)
WaitMusicCond_Never(wait_length) == FALSE

(* the loop test of wait_music looking at the voice just played only *)
WaitMusicCond_OwnVoice(wait_length) == QueueLength(sres.voice) > wait_length

(* the loop test of Sound.wait_music *)
WaitMusicCond(wait_length) ==
    \/ QueueLength(0) > wait_length
    \/ QueueLength(1) > wait_length
    \/ QueueLength(2) > wait_length

(* the loop test of wait_all_music looking at the queue lengths only *)
WaitAllMusicCond_QueueOnly ==
    QueueLength(0) # 0 \/ QueueLength(1) # 0 \/ QueueLength(2) # 0

(* the loop test of Sound.wait_all_music *)
WaitAllMusicCond == IsPlaying(0) \/ IsPlaying(1) \/ IsPlaying(2)

(* the frequency put on the queue as it was given *)
ToneFrequency_Raw(frequency) == frequency

(* the frequency play_sound_no_wait puts on the queue *)
ToneFrequency(frequency) ==
    LET f == IF frequency < 0 THEN 0 ELSE frequency IN
    IF (capabilities = "tandy" \/ (capabilities = "pcjr" /\ sound_on))
       /\ f < Hz(110) /\ f # 0
    THEN Hz(110) ELSE f

(* play_sound_no_wait putting the tone at the front of the queue *)
PutTone_Front(frequency, duration, fill, loop, voice, volume) ==
    LET f == ToneFrequency(frequency)
        tone == Tone(f, duration, fill, loop, volume)
    IN  /\ tone_queue' = [tone_queue EXCEPT ![voice] = <<tone>> \o @]
        /\ unfinished_tasks' = [unfinished_tasks EXCEPT ![voice] = @ + 1]
        /\ noise_freq' = IF voice = 2 /\ f # 0
                         THEN [noise_freq EXCEPT ![3] = f \div 2, ![7] = f \div 2]
                         ELSE noise_freq
        /\ burst' = BurstPut(voice)
        /\ rlog' = LogSent(voice, tone)

(* Sound.play_sound_no_wait: the effect on the queues and the noise frequencies *)
PutTone(frequency, duration, fill, loop, voice, volume) ==
    LET f == ToneFrequency(frequency)
        tone == Tone(f, duration, fill, loop, volume)
    IN  /\ tone_queue' = [tone_queue EXCEPT ![voice] = Append(@, tone)]
        /\ unfinished_tasks' = [unfinished_tasks EXCEPT ![voice] = @ + 1]
        /\ noise_freq' = IF voice = 2 /\ f # 0
                         THEN [noise_freq EXCEPT ![3] = f \div 2, ![7] = f \div 2]
                         ELSE noise_freq
        /\ burst' = BurstPut(voice)
        /\ rlog' = LogSent(voice, tone)

(* play_sound_no_wait called by a statement (SOUND) *)
play_sound_no_wait(frequency, duration, voice, maxdepth) ==
    /\ spc = "idle"
    /\ Len(tone_queue[voice]) < maxdepth
    /\ PutTone(frequency, duration, One, FALSE, voice, 15)
    /\ sres' = [NoSound EXCEPT !.op = "play_sound_no_wait", !.voice = voice,
                   !.event = Tone(ToneFrequency(frequency), duration, One, FALSE, 15)]
    /\ UNCHANGED <<mvars, pvars, rtaken, message_queue, capabilities, sound_on, foreground,
                   play_state, spc, sframe, pl>>

(* play_sound called by a statement (BEEP is play_sound(800, 0.25)): the put, then
   wait_music(15) *)
play_sound(frequency, duration, voice, maxdepth) ==
    /\ spc = "idle"
    /\ Len(tone_queue[voice]) < maxdepth
    /\ PutTone(frequency, duration, One, FALSE, voice, 15)
    /\ sres' = [NoSound EXCEPT !.op = "play_sound", !.voice = voice,
                   !.event = Tone(ToneFrequency(frequency), duration, One, FALSE, 15)]
    /\ spc' = "wait_music"
    /\ sframe' = [NoFrame EXCEPT !.ret = "idle", !.wait_length = 15]
    /\ UNCHANGED <<mvars, pvars, rtaken, message_queue, capabilities, sound_on, foreground,
                   play_state, pl>>

(* wait_music: one evaluation of the loop test; events.wait() when it holds *)
wait_music_yield ==
    /\ spc = "wait_music"
    /\ WaitMusicCond(sframe.wait_length)
    /\ sres' = [sres EXCEPT !.op = "wait_yield"]
    /\ UNCHANGED <<mvars, pvars, tone_queue, unfinished_tasks, rtaken, message_queue,
                   noise_freq, capabilities, sound_on, foreground, play_state, spc,
                   sframe, pl, burst, rlog>>

wait_music_return ==
    /\ spc = "wait_music"
    /\ ~WaitMusicCond(sframe.wait_length)
    /\ spc' = sframe.ret
    /\ sframe' = NoFrame
    /\ sres' = [sres EXCEPT !.op = "wait_return"]
    /\ UNCHANGED <<mvars, pvars, tone_queue, unfinished_tasks, rtaken, message_queue,
                   noise_freq, capabilities, sound_on, foreground, play_state, pl,
                   burst, rlog>>

(* play_noise *)
play_noise(source, volume, duration, maxdepth) ==
    /\ spc = "idle"
    /\ Len(tone_queue[3]) < maxdepth
    /\ LET noise == Noise(source > 3, noise_freq[source], duration, One, FALSE, volume)
       IN  /\ tone_queue' = [tone_queue EXCEPT ![3] = Append(@, noise)]
           /\ sres' = [NoSound EXCEPT !.op = "play_noise", !.voice = 3, !.event = noise]
    /\ unfinished_tasks' = [unfinished_tasks EXCEPT ![3] = @ + 1]
    /\ burst' = BurstPut(3)
    /\ rlog' = LogSent(3, Noise(source > 3, noise_freq[source], duration, One, FALSE, volume))
    /\ UNCHANGED <<mvars, pvars, rtaken, message_queue, noise_freq, capabilities, sound_on,
                   foreground, play_state, spc, sframe, pl>>

(* the queues stop_all_sound drains, noise channel left out *)
StopQueues_TonesOnly == 0..2

(* "for q in self.tone_queue" *)
StopQueues == 0..3

LastStopQueue == CHOOSE q \in StopQueues : \A r \in StopQueues : r <= q

(* stop_all_sound: entry *)
stop_all_begin(maxmsg) ==
    /\ spc = "idle"
    /\ Len(message_queue) < maxmsg
    /\ spc' = "stop_test"
    /\ sframe' = [NoFrame EXCEPT !.q = 0]
    /\ sres' = [NoSound EXCEPT !.op = "stop_all_sound"]
    /\ UNCHANGED <<mvars, pvars, tone_queue, unfinished_tasks, rtaken, message_queue,
                   noise_freq, capabilities, sound_on, foreground, play_state, pl,
                   burst, rlog>>

(* stop_all_sound: "while not q.empty()", the next queue, the AUDIO_STOP message *)
stop_all_test ==
    /\ spc = "stop_test"
    /\ IF tone_queue[sframe.q] # <<>>
       THEN /\ spc' = "stop_get"
            /\ UNCHANGED <<sframe, message_queue, sres>>
       ELSE IF sframe.q < LastStopQueue
       THEN /\ sframe' = [sframe EXCEPT !.q = @ + 1]
            /\ UNCHANGED <<spc, message_queue, sres>>
       ELSE /\ message_queue' = Append(message_queue, "AUDIO_STOP")
            /\ spc' = "idle"
            /\ sframe' = NoFrame
            /\ sres' = [sres EXCEPT !.op = "stop_all_return"]
    /\ UNCHANGED <<mvars, pvars, tone_queue, unfinished_tasks, rtaken, noise_freq,
                   capabilities, sound_on, foreground, play_state, pl, burst, rlog>>

(* a drain that marks an event done even when its get found the queue empty *)
stop_all_get_AlwaysDone ==
    /\ spc = "stop_get"
    /\ IF tone_queue[sframe.q] = <<>>
       THEN /\ spc' = "stop_task_done"
            /\ UNCHANGED <<tone_queue, burst, rlog>>
       ELSE /\ tone_queue' = [tone_queue EXCEPT ![sframe.q] = Tail(@)]
            /\ burst' = BurstGet(sframe.q, Len(tone_queue[sframe.q]) - 1)
            /\ rlog' = LogCut(sframe.q, Head(tone_queue[sframe.q]))
            /\ spc' = "stop_task_done"
    /\ UNCHANGED <<mvars, pvars, unfinished_tasks, rtaken, message_queue, noise_freq,
                   capabilities, sound_on, foreground, play_state, sframe, pl, sres>>

(* stop_all_sound: q.get(False); Queue.Empty when the renderer got there first *)
stop_all_get ==
    /\ spc = "stop_get"
    /\ IF tone_queue[sframe.q] = <<>>
       THEN /\ spc' = "stop_test"
            /\ UNCHANGED <<tone_queue, burst, rlog>>
       ELSE /\ tone_queue' = [tone_queue EXCEPT ![sframe.q] = Tail(@)]
            /\ burst' = BurstGet(sframe.q, Len(tone_queue[sframe.q]) - 1)
            /\ rlog' = LogCut(sframe.q, Head(tone_queue[sframe.q]))
            /\ spc' = "stop_task_done"
    /\ UNCHANGED <<mvars, pvars, unfinished_tasks, rtaken, message_queue, noise_freq,
                   capabilities, sound_on, foreground, play_state, sframe, pl, sres>>

(* stop_all_sound: q.task_done() *)
stop_all_task_done ==
    /\ spc = "stop_task_done"
    /\ unfinished_tasks' = [unfinished_tasks EXCEPT ![sframe.q] = @ - 1]
    /\ spc' = "stop_test"
    /\ UNCHANGED <<mvars, pvars, tone_queue, rtaken, message_queue, noise_freq, capabilities,
                   sound_on, foreground, play_state, sframe, pl, sres, burst, rlog>>

StopAllStep == stop_all_test \/ stop_all_get \/ stop_all_task_done

(* The audio renderer: takes the head of a queue, later marks it done *)
RendererGet(v) ==
    /\ tone_queue[v] # <<>>
    /\ rtaken[v] = 0
    /\ tone_queue' = [tone_queue EXCEPT ![v] = Tail(@)]
    /\ rtaken' = [rtaken EXCEPT ![v] = 1]
    /\ burst' = BurstGet(v, Len(tone_queue[v]) - 1)
    /\ rlog' = LogGot(v, Head(tone_queue[v]))
    /\ UNCHANGED <<mvars, pvars, unfinished_tasks, message_queue, noise_freq, capabilities,
                   sound_on, foreground, play_state, spc, sframe, pl, sres>>

RendererDone(v) ==
    /\ rtaken[v] = 1
    /\ rtaken' = [rtaken EXCEPT ![v] = 0]
    /\ unfinished_tasks' = [unfinished_tasks EXCEPT ![v] = @ - 1]
    /\ UNCHANGED <<mvars, pvars, tone_queue, message_queue, noise_freq, capabilities,
                   sound_on, foreground, play_state, spc, sframe, pl, sres, burst, rlog>>

(* Music Macro Language: strings are sequences of one-character strings *)

ML_WHITESPACE == {" "}
DigitChars == <<"0", "1", "2", "3", "4", "5", "6", "7", "8", "9">>
LowerChars == <<"a", "b", "c", "d", "e", "f", "g", "h", "i", "j", "k", "l", "m",
                "n", "o", "p", "q", "r", "s", "t", "u", "v", "w", "x", "y", "z">>
UpperChars == <<"A", "B", "C", "D", "E", "F", "G", "H", "I", "J", "K", "L", "M",
                "N", "O", "P", "Q", "R", "S", "T", "U", "V", "W", "X", "Y", "Z">>

IsDigit(c) == \E i \in DOMAIN DigitChars : DigitChars[i] = c
DigitVal(c) == (CHOOSE i \in DOMAIN DigitChars : DigitChars[i] = c) - 1
(* str.upper() of one character or of the empty string *)
Upper(c) ==
    IF \E i \in DOMAIN LowerChars : LowerChars[i] = c
    THEN UpperChars[CHOOSE i \in DOMAIN LowerChars : LowerChars[i] = c]
    ELSE c

(* the character under the cursor, "" at the end of the string *)
CharAt(s, p) == IF p <= Len(s) THEN s[p] ELSE ""

(* util.skip: the cursor after the whitespace at p *)
RECURSIVE SkipPos(_, _)
SkipPos(s, p) ==
    IF p <= Len(s) /\ s[p] \in ML_WHITESPACE THEN SkipPos(s, p + 1) ELSE p

(* the digits of a literal, whitespace skipped after each of them *)
RECURSIVE ReadLiteral(_, _, _)
ReadLiteral(s, p, acc) ==
    LET q == SkipPos(s, p) IN
    IF IsDigit(CharAt(s, q))
    THEN ReadLiteral(s, q + 1, acc * 10 + DigitVal(s[q]))
    ELSE [val |-> acc, pos |-> q]

(* MLParser.parse_number / ml_parse_number on a literal: optional sign, digits *)
ParseNumber(s, p) ==
    LET q == SkipPos(s, p)
        c == CharAt(s, q)
        sgn == IF c = "-" THEN -1 ELSE 1
        q1 == SkipPos(s, IF c \in {"+", "-"} THEN q + 1 ELSE q)
    IN  IF IsDigit(CharAt(s, q1))
        THEN LET r == ReadLiteral(s, q1, 0)
             IN  [ok |-> TRUE, val |-> sgn * r.val, pos |-> r.pos]
        ELSE [ok |-> FALSE, val |-> 0, pos |-> q1]

(* the string variables an X command can name, and MLParser.parse_string on
   "name;": the value of the variable *)
StringVars == [name \in {<<"A", "$">>} |-> <<"D">>]
RECURSIVE FindChar(_, _, _)
FindChar(s, p, c) ==
    IF p > Len(s) THEN 0 ELSE IF s[p] = c THEN p ELSE FindChar(s, p + 1, c)
ParseString(s, p) ==
    LET q == SkipPos(s, p)
        e == FindChar(s, q, ";")
        name == IF e = 0 THEN <<>> ELSE SubSeq(s, q, e - 1)
    IN  IF e # 0 /\ name \in DOMAIN StringVars
        THEN [ok |-> TRUE, sub |-> StringVars[name], pos |-> e + 1]
        ELSE [ok |-> FALSE, sub |-> <<>>, pos |-> q]

(* note_freq[0..11] in units of 1/4096 Hz, and note_freq[i] *)
note_freq_base == <<267904, 283836, 300712, 318594, 337538, 357610,
                    378874, 401404, 425272, 450560, 477352, 505736>>
note_freq(i) == note_freq_base[(i % 12) + 1] * 2 ^ (i \div 12)

(* the notes dictionary; -1 stands for KeyError *)
notes(note) ==
    CASE note = <<"C">> -> 0
      [] note = <<"C", "#">> -> 1
      [] note = <<"D", "-">> -> 1
      [] note = <<"D">> -> 2
      [] note = <<"D", "#">> -> 3
      [] note = <<"E", "-">> -> 3
      [] note = <<"E">> -> 4
      [] note = <<"F">> -> 5
      [] note = <<"F", "#">> -> 6
      [] note = <<"G", "-">> -> 6
      [] note = <<"G">> -> 7
      [] note = <<"G", "#">> -> 8
      [] note = <<"A", "-">> -> 8
      [] note = <<"A">> -> 9
      [] note = <<"A", "#">> -> 10
      [] note = <<"B", "-">> -> 10
      [] note = <<"B">> -> 11
      [] OTHER -> -1

(* the modifiers after a note letter: dots, literal lengths, sharps and flats *)
RECURSIVE NoteMods(_, _, _, _)
NoteMods(s, p, note, dur) ==
    LET q == SkipPos(s, p)
        c == Upper(CharAt(s, q))
    IN  IF c = "" THEN [pos |-> q, note |-> note, dur |-> dur, err |-> ""]
        ELSE IF c = "." THEN NoteMods(s, q + 1, note, RatMul(dur, Rat(3, 2)))
        ELSE IF IsDigit(c)
        THEN LET r == ReadLiteral(s, q, 0)
             IN  IF r.val = 0
                 THEN [pos |-> r.pos, note |-> note, dur |-> dur,
                       err |-> "ZeroDivisionError"]
                 ELSE NoteMods(s, r.pos, note, Rat(1, r.val))
        ELSE IF c \in {"#", "+"} THEN NoteMods(s, q + 1, Append(note, "#"), dur)
        ELSE IF c = "-" THEN NoteMods(s, q + 1, Append(note, "-"), dur)
        ELSE [pos |-> q, note |-> note, dur |-> dur, err |-> ""]

(* ">" with no upper limit *)
OctaveUp_NoClamp(octave) == octave + 1

(* ">" *)
OctaveUp(octave) == IF octave + 1 > 6 THEN 6 ELSE octave + 1

(* "<" with no lower limit *)
OctaveDown_NoClamp(octave) == octave - 1

(* "<" *)
OctaveDown(octave) == IF octave - 1 < 0 THEN 0 ELSE octave - 1

(* one turn of "for voice in voices": what the body does for that voice *)
Visit(voice) ==
    LET vstate == play_state[voice]
        gmls == pl.gmls[voice + 1]
        q == SkipPos(gmls, pl.pos[voice + 1])
        c == Upper(CharAt(gmls, q))
        p == IF q > Len(gmls) THEN q ELSE q + 1
        base == [kind |-> "continue", pos |-> p, gmls |-> gmls, vstate |-> vstate,
                 foreground |-> foreground, err |-> "", emit |-> FALSE,
                 frequency |-> 0, duration |-> Zero, fill |-> One, volume |-> 0,
                 semitone |-> -1]
        ifc == [base EXCEPT !.kind = "error", !.err = "IFC"]
        zde == [base EXCEPT !.kind = "error", !.err = "ZeroDivisionError"]
        num == ParseNumber(gmls, p)
        sound(kind, frequency, dur, volume, pos) ==
            [base EXCEPT !.kind = kind, !.pos = pos, !.emit = TRUE,
                         !.frequency = frequency,
                         !.duration = RatMul(dur, vstate.tempo),
                         !.fill = vstate.speed, !.volume = volume]
    IN  CASE c = "" -> [base EXCEPT !.kind = "remove"]
          [] c = ";" -> base
          [] c = "X" ->
                LET r == ParseString(gmls, p) IN
                IF ~r.ok THEN ifc
                ELSE [base EXCEPT !.kind = "X", !.pos = r.pos,
                         !.gmls = SubSeq(gmls, 1, r.pos - 1) \o r.sub \o
                                  SubSeq(gmls, r.pos, Len(gmls))]
          [] c = "N" ->
                IF ~num.ok THEN ifc
                ELSE LET q2 == SkipPos(gmls, num.pos)
                         dotted == CharAt(gmls, q2) = "."
                         pos == IF dotted THEN q2 + 1 ELSE q2
                         dur == IF dotted THEN RatMul(vstate.length, Rat(3, 2))
                                ELSE vstate.length
                     IN  IF num.val > 0 /\ num.val <= 84
                         THEN sound("N", note_freq(num.val - 1), dur, vstate.volume, pos)
                         ELSE IF num.val = 0
                         THEN sound("N", 0, dur, 0, pos)
                         ELSE [base EXCEPT !.pos = pos]
          [] c = "L" ->
                IF ~num.ok THEN ifc
                ELSE IF num.val = 0 THEN zde
                ELSE [base EXCEPT !.kind = "L", !.pos = num.pos,
                                  !.vstate.length = Rat(1, num.val)]
          [] c = "T" ->
                IF ~num.ok THEN ifc
                ELSE IF num.val = 0 THEN zde
                ELSE [base EXCEPT !.kind = "T", !.pos = num.pos,
                                  !.vstate.tempo = Rat(240, num.val)]
          [] c = "O" ->
                IF ~num.ok THEN ifc
                ELSE [base EXCEPT !.kind = "O", !.pos = num.pos,
                                  !.vstate.octave = Min(6, Max(0, num.val))]
          [] c = ">" ->
                [base EXCEPT !.kind = "shift", !.vstate.octave = OctaveUp(vstate.octave)]
          [] c = "<" ->
                [base EXCEPT !.kind = "shift", !.vstate.octave = OctaveDown(vstate.octave)]
          [] c \in {"A", "B", "C", "D", "E", "F", "G", "P"} ->
                LET m == NoteMods(gmls, p, <<c>>, vstate.length) IN
                IF m.err # "" THEN [base EXCEPT !.kind = "error", !.err = m.err]
                ELSE IF m.note = <<"P">>
                THEN sound("rest", 0, m.dur, vstate.volume, m.pos)
                ELSE IF notes(m.note) = -1 THEN ifc
                ELSE [sound("note",
                            note_freq((vstate.octave + pl.next_oct) * 12 + notes(m.note)),
                            m.dur, vstate.volume, m.pos)
                         EXCEPT !.semitone = notes(m.note)]
          [] c = "M" ->
                LET q2 == SkipPos(gmls, p)
                    c2 == Upper(CharAt(gmls, q2))
                    r == [base EXCEPT !.kind = "M",
                                      !.pos = IF q2 > Len(gmls) THEN q2 ELSE q2 + 1]
                IN  CASE c2 = "N" -> [r EXCEPT !.vstate.speed = Rat(7, 8)]
                      [] c2 = "L" -> [r EXCEPT !.vstate.speed = One]
                      [] c2 = "S" -> [r EXCEPT !.vstate.speed = Rat(3, 4)]
                      [] c2 = "F" -> [r EXCEPT !.foreground = TRUE]
                      [] c2 = "B" -> [r EXCEPT !.foreground = FALSE]
                      [] OTHER -> ifc
          [] c = "V" /\ (capabilities = "tandy" \/ (capabilities = "pcjr" /\ sound_on)) ->
                IF ~num.ok THEN ifc
                ELSE [base EXCEPT !.kind = "V", !.pos = num.pos,
                                  !.vstate.volume = Min(15, Max(0, num.val))]
          [] OTHER -> ifc

(* list.remove that leaves the list as it is *)
Remove_Keep(list, x) == list

(* list.remove: the list without the first occurrence of x *)
RECURSIVE Remove(_, _)
Remove(list, x) ==
    IF list = <<>> THEN <<>>
    ELSE IF Head(list) = x THEN Tail(list)
    ELSE <<Head(list)>> \o Remove(Tail(list), x)

(* max(total_time) taken to be the time of voice 0 *)
MaxTime_First(times) == times[1]

(* max(total_time) *)
RECURSIVE MaxTime(_)
MaxTime(times) ==
    IF Len(times) = 1 THEN times[1] ELSE RatMax(times[1], MaxTime(Tail(times)))

(* an error that ends the scan and lets the call go on to the padding *)
PlayRaise_Pad == "play_pad"

(* "raise error.RunError(...)" and an uncaught ZeroDivisionError: play is left at
   once, the statement has failed *)
PlayRaise == "idle"

(* play: the MML strings are loaded, the loop is entered *)
play_begin(mml_list, maxplays) ==
    /\ spc = "idle"
    /\ pl.nplays < maxplays
    /\ pl' = [NoPlay EXCEPT !.gmls = mml_list, !.voices = <<0, 1, 2>>,
                            !.oct_base = pl.oct_base, !.shifts = pl.shifts,
                            !.nplays = pl.nplays + 1]
    /\ spc' = "play_while"
    /\ sres' = [NoSound EXCEPT !.op = "play"]
    /\ UNCHANGED <<mvars, pvars, tone_queue, unfinished_tasks, rtaken, message_queue,
                   noise_freq, capabilities, sound_on, foreground, play_state,
                   sframe, burst, rlog>>

(* play: "while True: if not voices: break", then the for loop starts over the
   list as it is *)
play_while ==
    /\ spc = "play_while"
    /\ IF pl.voices = <<>>
       THEN /\ spc' = "play_pad"
            /\ pl' = [pl EXCEPT !.padv = 0]
       ELSE /\ spc' = "play_for"
            /\ pl' = [pl EXCEPT !.vidx = 1,
                                !.pass_start = {pl.voices[i] : i \in DOMAIN pl.voices},
                                !.pass_seen = {}]
    /\ UNCHANGED <<mvars, pvars, tone_queue, unfinished_tasks, rtaken, message_queue,
                   noise_freq, capabilities, sound_on, foreground, play_state,
                   sframe, sres, burst, rlog>>

(* play: the body of "for voice in voices" for one voice, r being what its
   command is and does *)
PlayVisited(voice, r) ==
    LET named == r.kind = "note"
        pl1 == [pl EXCEPT
                  !.vidx = pl.vidx + 1,
                  !.pass_seen = pl.pass_seen \cup {voice},
                  !.voices = IF r.kind = "remove" THEN Remove(pl.voices, voice)
                             ELSE pl.voices,
                  !.gmls[voice + 1] = r.gmls,
                  !.pos[voice + 1] = r.pos,
                  !.next_oct = IF r.kind \in {"note", "rest"} THEN 0 ELSE @,
                  !.total_time[voice + 1] =
                      IF r.emit THEN RatAdd(@, r.duration) ELSE @,
                  !.oct_base[voice + 1] =
                      IF r.kind \in {"note", "O"} THEN r.vstate.octave ELSE @,
                  !.shifts[voice + 1] =
                      IF r.kind \in {"note", "O"} THEN <<>>
                      ELSE IF r.kind = "shift"
                      THEN Append(@, CharAt(pl.gmls[voice + 1], r.pos - 1))
                      ELSE @,
                  !.enq[voice + 1] =
                      IF r.emit /\ r.err = ""
                      THEN Append(@, [frequency |-> ToneFrequency(r.frequency),
                                      duration |-> r.duration, pad |-> FALSE])
                      ELSE @]
    IN  /\ pl' = pl1
        /\ play_state' = [play_state EXCEPT ![voice] = r.vstate]
        /\ foreground' = r.foreground
        /\ IF r.err # ""
           THEN /\ spc' = PlayRaise
                /\ sres' = [NoSound EXCEPT !.op = "play_error", !.voice = voice,
                                            !.err = r.err]
                /\ UNCHANGED <<tone_queue, unfinished_tasks, noise_freq, burst, rlog,
                               sframe>>
           ELSE IF r.emit
           THEN /\ PutTone(r.frequency, r.duration, r.fill, FALSE, voice, r.volume)
                /\ spc' = "wait_music"
                /\ sframe' = [NoFrame EXCEPT !.ret = "play_for",
                                             !.wait_length = 15]
                /\ sres' = [NoSound EXCEPT
                      !.op = r.kind, !.voice = voice,
                      !.event = Tone(ToneFrequency(r.frequency), r.duration,
                                     r.fill, FALSE, r.volume),
                      !.base = IF named THEN pl.oct_base[voice + 1] ELSE -1,
                      !.shifts = IF named THEN pl.shifts[voice + 1] ELSE <<>>,
                      !.semitone = r.semitone]
           ELSE /\ sres' = [NoSound EXCEPT !.op = r.kind, !.voice = voice]
                /\ UNCHANGED <<tone_queue, unfinished_tasks, noise_freq, burst, rlog,
                               spc, sframe>>

(* play: the list iterator yields the element at its index, or the loop ends; the
   body runs for that voice up to its play_sound, error or continue *)
play_for ==
    /\ spc = "play_for"
    /\ IF pl.vidx > Len(pl.voices)
       THEN /\ spc' = "play_while"
            /\ pl' = [pl EXCEPT !.skipped = pl.pass_start \ pl.pass_seen]
            /\ UNCHANGED <<tone_queue, unfinished_tasks, noise_freq, burst, rlog,
                           play_state, foreground, sframe, sres>>
       ELSE PlayVisited(pl.voices[pl.vidx], Visit(pl.voices[pl.vidx]))
    /\ UNCHANGED <<mvars, pvars, rtaken, message_queue, capabilities, sound_on>>

(* play: the padding loop "for voice in range(3)", then the test of foreground *)
play_pad ==
    /\ spc = "play_pad"
    /\ LET max_time == MaxTime(pl.total_time)
           voice == pl.padv
       IN  IF voice > 2
           THEN /\ spc' = IF foreground THEN "wait_all" ELSE "idle"
                /\ sres' = [NoSound EXCEPT
                               !.op = IF foreground THEN "play_wait_all" ELSE "play_return"]
                /\ UNCHANGED <<tone_queue, unfinished_tasks, noise_freq, burst, rlog, sframe, pl>>
           ELSE IF RatLess(pl.total_time[voice + 1], max_time)
           THEN LET duration == RatSub(max_time, pl.total_time[voice + 1]) IN
                /\ PutTone(0, duration, One, FALSE, voice, 15)
                /\ spc' = "wait_music"
                /\ sframe' = [NoFrame EXCEPT !.ret = "play_pad", !.wait_length = 15]
                /\ sres' = [NoSound EXCEPT !.op = "pad", !.voice = voice,
                                           !.event = Tone(0, duration, One, FALSE, 15)]
                /\ pl' = [pl EXCEPT !.padv = voice + 1,
                                    !.enq[voice + 1] =
                                        Append(@, [frequency |-> 0, duration |-> duration,
                                                   pad |-> TRUE])]
           ELSE /\ pl' = [pl EXCEPT !.padv = voice + 1]
                /\ UNCHANGED <<tone_queue, unfinished_tasks, noise_freq, burst, rlog, spc,
                               sframe, sres>>
    /\ UNCHANGED <<mvars, pvars, rtaken, message_queue, capabilities, sound_on, foreground,
                   play_state>>

(* wait_all_music: one evaluation of the loop test; events.wait() when it holds *)
wait_all_music_yield ==
    /\ spc = "wait_all"
    /\ WaitAllMusicCond
    /\ sres' = [sres EXCEPT !.op = "wait_all_yield"]
    /\ UNCHANGED <<mvars, pvars, tone_queue, unfinished_tasks, rtaken, message_queue,
                   noise_freq, capabilities, sound_on, foreground, play_state, spc,
                   sframe, pl, burst, rlog>>

wait_all_music_return ==
    /\ spc = "wait_all"
    /\ ~WaitAllMusicCond
    /\ spc' = "idle"
    /\ sres' = [sres EXCEPT !.op = "play_return"]
    /\ UNCHANGED <<mvars, pvars, tone_queue, unfinished_tasks, rtaken, message_queue,
                   noise_freq, capabilities, sound_on, foreground, play_state,
                   sframe, pl, burst, rlog>>

(* Sound.reset (CLEAR) *)
reset ==
    /\ spc = "idle"
    /\ foreground' = TRUE
    /\ play_state' = [v \in Voices |-> PlayState]
    /\ pl' = [pl EXCEPT !.oct_base = <<4, 4, 4>>, !.shifts = <<<<>>, <<>>, <<>>>>]
    /\ sres' = [NoSound EXCEPT !.op = "reset"]
    /\ UNCHANGED <<mvars, pvars, tone_queue, unfinished_tasks, rtaken, message_queue,
                   noise_freq, capabilities, sound_on, spc, sframe, burst, rlog>>

(* Sound.__init__ *)
SoundInitLog(syntax, log) ==
    /\ tone_queue = [v \in Queues |-> <<>>]
    /\ unfinished_tasks = [v \in Queues |-> 0]
    /\ rtaken = [v \in Queues |-> 0]
    /\ message_queue = <<>>
    /\ noise_freq = [i \in 0..7 |->
          IF i \in {3, 7} THEN 0
          ELSE IF i \in {0, 4} THEN 4 * base_freq_div4
          ELSE IF i \in {1, 5} THEN 2 * base_freq_div4
          ELSE base_freq_div4]
    /\ capabilities = (IF syntax \in {"pcjr", "tandy"} THEN syntax ELSE "")
    /\ sound_on = (syntax = "tandy")
    /\ foreground = TRUE
    /\ play_state = [v \in Voices |-> PlayState]
    /\ spc = "idle"
    /\ sframe = NoFrame
    /\ pl = NoPlay
    /\ sres = NoSound
    /\ burst = [v \in Queues |-> 0]
    /\ rlog = log

SoundInit(syntax) == SoundInitLog(syntax, NoLog)

----------------------------------------------------------------------------
(* Specifications *)

(* Memory statements *)
Init == MemInit /\ SoundInit("") /\ PortsInit
Next == MemNext
Spec == Init /\ [][Next]_vars

(* Sound queue operations against the renderer, shallow queues *)
MaxQueue == 2
MaxMessages == 1
SoundVoices == {0, 2}
SoundNext ==
    \/ \E v \in SoundVoices : play_sound_no_wait(Hz(440), Rat(1, 4), v, MaxQueue)
    \/ play_noise(4, 15, Rat(1, 4), 1)
    \/ stop_all_begin(MaxMessages)
    \/ stop_all_test
    \/ stop_all_get
    \/ stop_all_task_done
    \/ \E v \in Queues : RendererGet(v)
    \/ \E v \in Queues : RendererDone(v)
SoundSpecInit == MemFixed /\ SoundInit("tandy") /\ PortsInit
SoundSpec == SoundSpecInit /\ [][SoundNext]_vars

(* Deep queues: SOUND fills a voice without waiting, BEEP waits *)
DeepQueue == 18
DeepVoices == {0, 1}
DeepNext ==
    \/ \E v \in DeepVoices : play_sound_no_wait(Hz(800), Rat(1, 4), v, DeepQueue)
    \/ \E v \in DeepVoices : play_sound(Hz(800), Rat(1, 4), v, DeepQueue)
    \/ wait_music_yield
    \/ wait_music_return
    \/ \E v \in DeepVoices : RendererGet(v)
    \/ \E v \in DeepVoices : RendererDone(v)
DeepSpecInit == MemFixed /\ SoundInit("") /\ PortsInit
DeepSpec == DeepSpecInit /\ [][DeepNext]_vars

(* PLAY: Music Macro Language strings against the renderer *)
MaxPlays == 2
Notes18 == [i \in 1..18 |-> "C"]
MmlInputs ==
    { <<<<>>, <<"C">>, <<"C">>>>,
      <<<<">", ">", "C", "D">>, <<>>, <<>>>>,
      <<<<"o", "6", ">", "c", "<", "<", "D">>, <<"O", "0", "<", "E", "-", "8", ".">>, <<>>>>,
      <<<<"A">>, <<"A", "B">>, <<>>>>,
      <<<<"M", "B", "L", "8", "C", "#">>, <<"N", "0", ".">>, <<"P", "4", "m", "f">>>>,
      <<<<"C", "0">>, <<>>, <<>>>>,
      <<<<>>, <<"Z">>, <<"C">>>>,
      <<<<"X", "A", "$", ";", "C">>, <<"T", "1", "2", "0", ";", "F", "+">>, <<"V", "9", "G">>>>,
      <<Notes18, <<>>, <<>>>> }
PlayNext ==
    \/ \E mml_list \in MmlInputs : play_begin(mml_list, MaxPlays)
    \/ play_while
    \/ play_for
    \/ play_pad
    \/ wait_music_yield
    \/ wait_music_return
    \/ wait_all_music_yield
    \/ wait_all_music_return
    \/ reset
    \/ \E v \in Voices : RendererGet(v)
    \/ \E v \in Voices : RendererDone(v)
PlaySpecInit == MemFixed /\ SoundInit("") /\ PortsInit
PlaySpec == PlaySpecInit /\ [][PlayNext]_vars

(* PLAY in background mode: MB, a play without M command, MF.  The queues stay
   far below 16 events, so wait_music never waits here. *)
MaxBgPlays == 3
BgInputs ==
    { <<<<"M", "B", "C">>, <<>>, <<>>>>,
      <<<<"D">>, <<"E", "4">>, <<>>>>,
      <<<<"m", "f", "G">>, <<>>, <<>>>> }
BgNext ==
    \/ \E mml_list \in BgInputs : play_begin(mml_list, MaxBgPlays)
    \/ play_while
    \/ play_for
    \/ play_pad
    \/ wait_music_return
    \/ wait_all_music_yield
    \/ wait_all_music_return
    \/ reset
    \/ \E v \in Voices : RendererGet(v)
    \/ \E v \in Voices : RendererDone(v)
BgSpecInit == MemFixed /\ SoundInit("") /\ PortsInit
BgSpec == BgSpecInit /\ [][BgNext]_vars

(* Delivery order: every tone put on a voice has a frequency of its own, the
   renderer and stop_all_sound take events away, the log records who got what *)
MaxPuts == 3
OrderVoices == {0, 2}
LogOn == [NoLog EXCEPT !.on = TRUE]
OrderNext ==
    \/ \E v \in OrderVoices :
          /\ Len(rlog.sent[v]) < MaxPuts
          /\ play_sound_no_wait(Hz(200 + Len(rlog.sent[v])), Rat(1, 4), v, MaxPuts)
    \/ stop_all_begin(MaxMessages)
    \/ stop_all_test
    \/ stop_all_get
    \/ stop_all_task_done
    \/ \E v \in OrderVoices : RendererGet(v)
    \/ \E v \in OrderVoices : RendererDone(v)
OrderSpecInit == MemFixed /\ SoundInitLog("", LogOn) /\ PortsInit
OrderSpec == OrderSpecInit /\ [][OrderNext]_vars

----------------------------------------------------------------------------
(* Properties of Memory *)

Regions == {"rom", "ram_font", "video", "data", "low"}
RegionBase(r) ==
    CASE r = "rom" -> rom_segment * 16
      [] r = "ram_font" -> ram_font_segment * 16
      [] r = "video" -> video_segment * 16
      [] r = "data" -> data_segment * 16
      [] r = "low" -> 0
(* the regions whose base is at or below a, and among them the one of highest base *)
Matching(a) == {r \in Regions : RegionBase(r) <= a}
HighestBase(a) ==
    CHOOSE r \in Matching(a) : \A q \in Matching(a) : RegionBase(q) <= RegionBase(r)

(* C1: every address a >= 0 read by PEEK or written by POKE is handled by the one
   region of highest base at or below a, and _get_memory and _set_memory select
   the same region for it. *)
C1_RegionDispatch ==
    (mres.op \in {"peek", "poke"} /\ mres.err = "") =>
        /\ mres.addr >= 0
        /\ mres.region \in Regions
        /\ mres.region = HighestBase(mres.addr)
        /\ GetRegion(mres.addr) = HighestBase(mres.addr)
        /\ SetRegion(mres.addr) = GetRegion(mres.addr)
        /\ Cardinality({r \in Regions : r = GetRegion(mres.addr)}) = 1

C1_Witness ==
    mres.op = "poke" /\ mres.err = "" /\ mres.addr = ram_font_segment * 16 + 1

(* C2: read_block(addr, length) returns exactly length bytes, byte i being what a
   single-byte read of addr+i returns.  BSAVE is the caller of read_block. *)
C2_ReadBlock ==
    (mres.op = "bsave" /\ mres.err = "") =>
        /\ Len(mres.result) = mres.length
        /\ \A i \in 1..Len(mres.result) :
              mres.result[i] = GetMemory(st, mres.addr + i - 1)

(* what PEEK sees at the addresses backed by state *)
ObservedAddrs ==
    (1024..1130) \cup DataMapped \cup VideoMapped \cup
    ((ram_font_segment * 16 + ram_font_addr - 2)..
        (ram_font_segment * 16 + ram_font_addr + 127 * 8 + 1))
PeekImage(s) == [a \in ObservedAddrs |-> GetMemory(s, a)]

(* C3: write_block(addr, read_block(addr, n)) leaves every byte as it was.  BLOAD is
   the caller of write_block; the step is a round trip when the bytes it writes are
   what read_block returns for that address in the state before. *)
C3_RoundTrip ==
    [][(mres'.op = "bload" /\ mres'.err = "" /\ msteps' = msteps + 1 /\
        \E n \in LenArgs : mres'.result = GetMemoryBlock(st, mres'.addr, n))
       => PeekImage(st') = PeekImage(st)]_vars

(* C4 as stated: POKE of a value outside [0,255] fails with the out-of-range error. *)
C4_Original ==
    (mres.op = "poke" /\ mres.val \notin 0..255) => mres.err = "OUT_OF_RANGE"

(* C4 amended: POKE of a value outside [0,255] fails in every region, with
   illegal-function-call when the program is protected outside run mode (that test
   comes first) and with the out-of-range error otherwise, and leaves the stores
   and the segment register unchanged. *)
C4_PokeRange ==
    [][(mres'.op = "poke" /\ msteps' = msteps + 1 /\ mres'.val \notin 0..255)
       => /\ mres'.err = IF protected /\ ~run_mode THEN "IFC" ELSE "OUT_OF_RANGE"
          /\ st' = st
          /\ segment' = segment]_vars

C4_Witness ==
    mres.op = "poke" /\ mres.val = -1 /\ mres.err = "OUT_OF_RANGE" /\
    segment = ram_font_segment

(* C5: when the program is protected and the interpreter is not in run mode, PEEK,
   POKE, BLOAD and BSAVE fail with illegal-function-call without touching a byte
   or opening a file; in every other case none of them fails with it. *)
C5_Protection ==
    [][(msteps' = msteps + 1 /\ mres'.op \in {"peek", "poke", "bload", "bsave"})
       => IF protected /\ ~run_mode
          THEN /\ mres'.err = "IFC"
               /\ mres'.region = "none" /\ mres'.result = <<>> /\ ~mres'.opened
               /\ st' = st /\ file' = file
          ELSE mres'.err # "IFC"]_vars

C5_Witness ==
    mres.op = "bload" /\ mres.err = "IFC" /\ protected /\ ~run_mode

----------------------------------------------------------------------------
(* Properties of Sound *)

(* C6: the adjusted queue length of a voice is max(0, raw_count - 1); after N puts
   on an empty voice with no removal in between it is N-1 for N >= 1, 0 for N = 0. *)
C6_AdjustedLength ==
    \A v \in Voices :
        /\ QueueLength(v) = (IF Len(tone_queue[v]) >= 1 THEN Len(tone_queue[v]) - 1 ELSE 0)
        /\ burst[v] >= 0 =>
              QueueLength(v) = (IF burst[v] >= 1 THEN burst[v] - 1 ELSE 0)

C6_Witness == burst[0] = 17 /\ QueueLength(0) = 16 /\ unfinished_tasks[0] = 17

(* a step in which wait_music calls events.wait() / returns to its caller *)
YieldStep == spc = "wait_music" /\ sres'.op = "wait_yield" /\ sres.op # "wait_yield"
ReturnStep == spc = "wait_music" /\ spc' # "wait_music"

(* C7 as stated: play_sound stays blocked only while the adjusted queue length of
   the voice it played on is above 15. *)
C7_Original ==
    [][YieldStep => QueueLength(sres.voice) > 15]_vars

(* C7 amended: play_sound appends the event to the queue of its voice and then
   blocks until the adjusted queue length of every tone voice 0, 1, 2 is <= 15:
   it waits while any of them is deeper and returns only when none is. *)
C7_PlayAndWait ==
    [][/\ (spc = "idle" /\ sres'.op = "play_sound") =>
            /\ tone_queue'[sres'.voice] = Append(tone_queue[sres'.voice], sres'.event)
            /\ spc' = "wait_music" /\ sframe'.wait_length = 15
       /\ YieldStep => \E v \in Voices : QueueLength(v) > 15
       /\ ReturnStep => \A v \in Voices : QueueLength(v) <= 15]_vars

C7_Witness ==
    /\ sres.op = "wait_yield" /\ sres.voice = 0
    /\ QueueLength(0) <= 15 /\ QueueLength(1) > 15

(* C8: when stop_all_sound returns every queue, the three voices and the noise
   channel, is empty and every adjusted length is 0, whatever the renderer removed
   in between; and inside stop_all_sound the next step never waits for anything. *)
C8_StopAll ==
    /\ sres.op = "stop_all_return" =>
          /\ \A q \in Queues : tone_queue[q] = <<>> /\ QueueLength(q) = 0
          /\ message_queue # <<>> /\ message_queue[Len(message_queue)] = "AUDIO_STOP"
    /\ spc \in {"stop_test", "stop_get", "stop_task_done"} => ENABLED StopAllStep

C8_Witness ==
    sres.op = "stop_all_return" /\ rtaken[0] = 1 /\ rtaken[3] = 1 /\ unfinished_tasks[2] = 0

(* C9: in every pass of play each voice that is active when the pass starts has one
   lexical unit consumed, or is removed as exhausted, before the pass ends: no
   active voice is left out of a pass because another voice was removed in it. *)
C9_RoundRobin == pl.skipped = {}

(* the octave after one ">" or "<", and after a sequence of them *)
ShiftOctave(octave, c) ==
    IF c = ">" THEN Min(6, octave + 1) ELSE Max(0, octave - 1)
RECURSIVE ApplyShifts(_, _)
ApplyShifts(octave, shifts) ==
    IF shifts = <<>> THEN octave
    ELSE ApplyShifts(ShiftOctave(octave, Head(shifts)), Tail(shifts))

RECURSIVE SumDuration(_)
SumDuration(events) ==
    IF events = <<>> THEN Zero
    ELSE RatAdd(events[1].duration, SumDuration(Tail(events)))
NotesOf(voice) == SelectSeq(pl.enq[voice + 1], LAMBDA e : ~e.pad)
PadsOf(voice) == SelectSeq(pl.enq[voice + 1], LAMBDA e : e.pad)
NoteTime(voice) == SumDuration(NotesOf(voice))
LongestVoice == RatMax(NoteTime(0), RatMax(NoteTime(1), NoteTime(2)))

(* C11: when play returns without error the events it enqueued have the same total
   duration on voices 0, 1 and 2: a voice whose notes and rests are shorter than
   the longest voice got exactly one more event, the last one, of frequency 0 and
   of the missing duration; a voice as long as the longest got none. *)
C11_Padding ==
    sres.op = "play_return" =>
        \A v \in Voices :
            /\ SumDuration(pl.enq[v + 1]) = LongestVoice
            /\ IF RatLess(NoteTime(v), LongestVoice)
               THEN /\ Len(PadsOf(v)) = 1
                    /\ pl.enq[v + 1][Len(pl.enq[v + 1])] =
                          [frequency |-> 0, pad |-> TRUE,
                           duration |-> RatSub(LongestVoice, NoteTime(v))]
               ELSE PadsOf(v) = <<>>

C11_Witness ==
    /\ sres.op = "play_return"
    /\ pl.gmls = <<<<"A">>, <<"A", "B">>, <<>>>>
    /\ Len(PadsOf(0)) = 1 /\ PadsOf(1) = <<>> /\ Len(PadsOf(2)) = 1
    /\ NoteTime(2) = Zero /\ LongestVoice = One

(* a step of the loop body of play, and the character it finds for its voice *)
PlayForStep == spc = "play_for" /\ pl.vidx <= Len(pl.voices) /\ pl'.vidx = pl.vidx + 1
NextChar ==
    LET voice == pl.voices[pl.vidx]
        gmls == pl.gmls[voice + 1]
    IN  Upper(CharAt(gmls, SkipPos(gmls, pl.pos[voice + 1])))
MmlCommands ==
    {"", ";", "X", "N", "L", "T", "O", ">", "<", "A", "B", "C", "D", "E", "F", "G",
     "P", "M"} \cup
    (IF capabilities = "tandy" \/ (capabilities = "pcjr" /\ sound_on) THEN {"V"} ELSE {})

(* C12: when the scan of a voice reaches a character that is no MML command, play
   fails there with illegal-function-call: that step enqueues nothing and removes
   nothing from any queue, and as long as the failed play is the last statement
   no queue of a voice grows (no further note, no padding). *)
C12_UnknownCommand ==
    [][/\ (PlayForStep /\ NextChar \notin MmlCommands) =>
             /\ sres'.op = "play_error" /\ sres'.err = "IFC"
             /\ spc' = "idle"
             /\ tone_queue' = tone_queue /\ unfinished_tasks' = unfinished_tasks
             /\ pl'.enq = pl.enq
       /\ (sres.op = "play_error" /\ sres'.op = "play_error") =>
             \A v \in Voices :
                 /\ Len(tone_queue'[v]) <= Len(tone_queue[v])
                 /\ pl'.enq = pl.enq]_vars

C12_Witness ==
    /\ sres.op = "play_error" /\ sres.err = "IFC" /\ sres.voice = 1
    /\ pl.gmls = <<<<>>, <<"Z">>, <<"C">>>>
    /\ Len(pl.enq[3]) = 1 /\ Len(tone_queue[2]) = 1
    /\ PadsOf(0) = <<>> /\ PadsOf(1) = <<>> /\ PadsOf(2) = <<>>

(* C13: when play returns in foreground mode no voice has anything queued or in
   flight at the renderer; in background mode the padding is followed by the
   return with no wait; and the mode changes only by an M command of a play or
   by a reset, so it is carried from one play call to the next. *)
C13_Foreground ==
    [][/\ (sres'.op = "play_return" /\ foreground') =>
             \A v \in Voices :
                 /\ ~IsPlaying(v)'
                 /\ tone_queue'[v] = <<>> /\ rtaken'[v] = 0 /\ unfinished_tasks'[v] = 0
       /\ (spc = "play_pad" /\ pl.padv > 2 /\ sres' # sres) =>
             IF foreground THEN spc' = "wait_all"
             ELSE spc' = "idle" /\ sres'.op = "play_return"
       /\ (foreground' # foreground) =>
             \/ sres'.op = "reset" /\ foreground'
             \/ PlayForStep /\ NextChar = "M" /\ sres'.op = "M"]_vars

C13_Witness ==
    /\ sres.op = "play_return" /\ ~foreground /\ pl.nplays = 2
    /\ pl.gmls = <<<<"D">>, <<"E", "4">>, <<>>>>
    /\ Len(tone_queue[0]) = 2 /\ IsPlaying(0) /\ IsPlaying(1)

(* the place of an event among the events put on a voice *)
SentIndex(v, e) == CHOOSE i \in DOMAIN rlog.sent[v] : rlog.sent[v][i] = e
WasCut(v, e) == \E j \in DOMAIN rlog.cut[v] : rlog.cut[v][j] = e

(* C14: on each voice the renderer receives events in the order they were put:
   the events put, less those stop_all_sound removed, are the events received
   followed by the events still queued, in that order; so none is received
   twice, none overtakes an earlier one, none removed by stop_all is received. *)
C14_Order ==
    \A v \in Voices :
        LET got == rlog.got[v]
            queued == tone_queue[v]
        IN  /\ SelectSeq(rlog.sent[v], LAMBDA e : ~WasCut(v, e)) = got \o queued
            /\ \A i, j \in DOMAIN got :
                   i < j => SentIndex(v, got[i]) < SentIndex(v, got[j])
            /\ \A i \in DOMAIN got, j \in DOMAIN queued :
                   SentIndex(v, got[i]) < SentIndex(v, queued[j])
            /\ \A i \in DOMAIN got : ~WasCut(v, got[i])

C14_Witness ==
    /\ Len(rlog.sent[0]) = 3
    /\ \A i, j \in 1..3 : i # j => rlog.sent[0][i] # rlog.sent[0][j]
    /\ rlog.got[0] = <<rlog.sent[0][1], rlog.sent[0][3]>>
    /\ rlog.cut[0] = <<rlog.sent[0][2]>>

----------------------------------------------------------------------------
(* WAIT on a port while the devices behind the ports change *)

MaxReads == 3
ScanCodes == {0, 28}
WaitArgs == { <<PORT_KEYBOARD, 1, 0>>, <<PORT_KEYBOARD, 0, 255>>, <<PORT_KEYBOARD, 255, 28>>,
              <<PORT_KEYBOARD, 4, 4>>, <<PORT_LPT1 + 1, 128, 0>>, <<PORT_LPT1 + 1, 16, 16>>,
              <<COM1_BASE + 5, 1, 0>>, <<COM1_BASE + 3, 3, 2>>, <<PORT_GAME, 64, 64>>,
              <<PORT_LPT2 + 1, 255, 0>> }

WaitNext ==
    \/ \E a \in WaitArgs : wait_begin(a[1], a[2], a[3])
    \/ wait_test(MaxReads)
    \/ wait_events
    \/ \E scancode \in ScanCodes : KeyEvent(scancode)
    \/ \E fire \in BOOLEAN : StickEvent(fire, 0)
    \/ \E busy \in BOOLEAN : LptEvent(0, busy)
    \/ \E in_waiting \in BOOLEAN : ComEvent(0, in_waiting)

MemDevices == \E cfg \in MachineConfigs : cfg.streams # {} /\ MemInitOf(cfg)
WaitSpecInit == MemDevices /\ SoundInit("") /\ PortsInit
WaitSpec == WaitSpecInit /\ [][WaitNext]_vars

(* the test of WAIT on a value read from the port *)
WaitPasses(r, f) == BitAnd(BitXor(r, f.xorer), f.ander) # 0

(* C15: wait returns only directly after a read r of the port with
   (r XOR xor_mask) AND and_mask # 0; after a read that fails the test it
   yields once and then reads the port again; a first read that passes
   returns without a yield; with and_mask = 0 it never returns. *)
C15_Wait ==
    [][ /\ (ppc = "wait_test" /\ ppc' # "wait_test") =>
             /\ pres'.reads = pres.reads + 1
             /\ pres'.yields = pres.yields
             /\ pres'.last = inp(pframe.addr)
             /\ IF WaitPasses(pres'.last, pframe)
                THEN ppc' = "idle" /\ pres'.op = "wait_return"
                ELSE ppc' = "wait_events" /\ pres'.op = "wait"
        /\ (ppc = "wait_events" /\ ppc' # "wait_events") =>
             /\ ppc' = "wait_test"
             /\ pres'.yields = pres.yields + 1
             /\ pres'.reads = pres.reads
        /\ (ppc # "idle" /\ ppc' = "idle") => ppc = "wait_test"
        /\ (ppc' = "wait_test") => pres'.reads = pres'.yields
        /\ (pres'.op = "wait_return") =>
             /\ pres'.reads = pres'.yields + 1
             /\ pframe'.ander # 0
             /\ WaitPasses(pres'.last, pframe')
      ]_vars

(* a WAIT that returned after it had to yield, on a port whose value changed *)
C15_Witness ==
    /\ pres.op = "wait_return"
    /\ pres.yields >= 1
    /\ pres.last # 0

----------------------------------------------------------------------------
(* PLAY of strings without X, with an interpreter that keeps running and a
   renderer that takes and finishes what is queued *)

MaxTermPlays == 1
NoXInputs ==
    { mml_list \in MmlInputs :
        \A v \in 1..3 : \A i \in DOMAIN mml_list[v] : Upper(mml_list[v][i]) # "X" }
TermNext ==
    \/ \E mml_list \in NoXInputs : play_begin(mml_list, MaxTermPlays)
    \/ play_while
    \/ play_for
    \/ play_pad
    \/ wait_music_yield
    \/ wait_music_return
    \/ wait_all_music_yield
    \/ wait_all_music_return
    \/ reset
    \/ \E v \in Voices : RendererGet(v)
    \/ \E v \in Voices : RendererDone(v)
PlaySteps ==
    \/ play_while
    \/ play_for
    \/ play_pad
    \/ wait_music_return
    \/ wait_all_music_return
TermSpecInit == MemFixed /\ SoundInit("") /\ PortsInit
(* a step of PlaySteps can be taken *)
PlayCanStep ==
    \/ spc \in {"play_while", "play_for", "play_pad"}
    \/ spc = "wait_music" /\ ~WaitMusicCond(sframe.wait_length)
    \/ spc = "wait_all" /\ ~WaitAllMusicCond
(* weak fairness of the interpreter and of the renderer of each voice *)
TermSpec ==
    /\ TermSpecInit
    /\ [][TermNext]_vars
    /\ ([]<>(~PlayCanStep) \/ []<><<PlaySteps>>_vars)
    /\ \A v \in Voices :
          /\ ([]<>(tone_queue[v] = <<>> \/ rtaken[v] # 0) \/ []<><<RendererGet(v)>>_vars)
          /\ ([]<>(rtaken[v] # 1) \/ []<><<RendererDone(v)>>_vars)

(* characters of a voice not yet read *)
Unread(p, voice) == Len(p.gmls[voice + 1]) - p.pos[voice + 1] + 1
(* nothing but whitespace is left of a voice *)
Exhausted(p, voice) ==
    \A i \in p.pos[voice + 1]..Len(p.gmls[voice + 1]) :
        p.gmls[voice + 1][i] \in ML_WHITESPACE
Active(p) == {p.voices[i] : i \in DOMAIN p.voices}

(* C16: without X, every turn of the scanning loop reads at least one
   character of its voice or removes that voice, whose string is exhausted;
   the loop is left exactly when no voice is active; and a play that has
   started eventually returns or fails. *)
C16_Terminates ==
    /\ [][ /\ (spc = "play_for" /\ pl.vidx <= Len(pl.voices) /\ pl' # pl) =>
                LET voice == pl.voices[pl.vidx] IN
                /\ \/ Unread(pl', voice) < Unread(pl, voice)
                   \/ /\ Exhausted(pl, voice)
                      /\ Active(pl') = Active(pl) \ {voice}
                /\ \A v \in Voices \ {voice} : Unread(pl', v) = Unread(pl, v)
                /\ Active(pl') \subseteq Active(pl)
           /\ (spc = "play_while" /\ spc' # "play_while") =>
                (spc' = "play_pad" <=> pl.voices = <<>>)
           /\ (spc' = "play_pad" /\ spc # "play_pad") =>
                \/ spc = "play_while"
                \/ spc = "wait_music" /\ sframe.ret = "play_pad"
         ]_vars
    /\ (spc # "idle") ~> (spc = "idle")

(* a foreground play of eighteen notes has returned: it had to wait for the
   renderer both with a full queue and at its end *)
C16_Witness ==
    /\ sres.op = "play_return"
    /\ Len(pl.enq[1]) = 18
    /\ pl.voices = <<>>
    /\ foreground

(* C17: every play that fails fails with an illegal function call; no other
   kind of error leaves play, for a note of length 0 ("C0"), L0 and T0 too. *)
C17_OnlyIllegalFunctionCall ==
    sres.op = "play_error" => sres.err = "IFC"

(* the offset BLOAD uses: the argument when given, else the one in the file *)
BloadOffset(off) == IF off = None THEN file[1].offset ELSE ToUnsigned(off[1])

(* C18: bload writes the block at (current segment) * 16 + offset, the offset
   being the argument when one is given and the file's otherwise. *)
C18_BloadAddress ==
    (mres.op = "bload" /\ mres.err = "") =>
        \E off \in BloadOffArgs : mres.addr = segment * 16 + BloadOffset(off)

(* C19: an address of the peek-override table handed over at construction
   always peeks to its value in that table. *)
C19_PeekOverride ==
    (mres.op = "peek" /\ mres.err = "" /\ mres.addr \in DOMAIN peek_values) =>
        mres.result = <<peek_values[mres.addr]>>

----------------------------------------------------------------------------
(* DEF SEG over the ends of its argument range *)

SegRangeArgs ==
    {None} \cup {Some(v) : v \in (-32768..-32762) \cup (-6..6) \cup (65529..65535)
                                 \cup {data_segment, 32767, 32768}}
SegNext == \E seg \in SegRangeArgs : def_seg_(seg)
SegSpecInit == MemInit /\ SoundInit("") /\ PortsInit
SegSpec == SegSpecInit /\ [][SegNext]_vars

(* C20: the segment register is always in [0, 65535]; DEF SEG without argument
   sets it to the data segment, DEF SEG v with v < 0 to v + 65536 and DEF SEG v
   with v >= 0 to v. *)
C20_Segment ==
    /\ segment \in 0..65535
    /\ mres.op = "def_seg" =>
         IF mres.result = None THEN segment = data_segment
         ELSE LET v == mres.result[1] IN
              /\ v < 0 => segment = v + 65536
              /\ v >= 0 => segment = v

(* DEF SEG with the lowest argument after DEF SEG with another one *)
C20_Witness ==
    /\ mres.op = "def_seg"
    /\ mres.result = Some(-32768)
    /\ segment = 32768
    /\ msteps >= 2

----------------------------------------------------------------------------
(* PEEK and POKE below the data segment, on four machines *)

MonoScreen ==
    [TextScreen EXCEPT !.monitor = "mono", !.capabilities = "mda", !.colorswitch = 0]
EgaScreen ==
    [CgaScreen EXCEPT !.capabilities = "ega", !.border_attr = 3,
                      !.mode = [is_text_mode |-> FALSE, width |-> 80,
                                name |-> "640x350x16", page_size |-> 32768]]
LowConfigs ==
    MachineConfigs \cup
    {[tandy |-> FALSE, screen |-> MonoScreen, ring |-> OneKeyRing, streams |-> {"LPT2:"},
      peek_values |-> <<>>],
     [tandy |-> FALSE, screen |-> EgaScreen, ring |-> EmptyRing, streams |-> {},
      peek_values |-> <<>>]}
LowSegArgs == {Some(0), Some(64)}
LowPeekArgs == {0, 23, 102, 123, 128, 1046, 1086, 1103, 1127, 5071}
LowPokeArgs == {16, 23, 30, 1052, 1055}
LowPokeVals == {36, 65}
LowNext ==
    \/ \E seg \in LowSegArgs : def_seg_(seg)
    \/ \E num \in LowPeekArgs : peek_(num)
    \/ \E num \in LowPokeArgs, val \in LowPokeVals : poke_(num, val)
LowSpecInit == (\E cfg \in LowConfigs : MemInitOf(cfg)) /\ SoundInit("") /\ PortsInit
LowSpec == LowSpecInit /\ [][LowNext]_vars

(* the addresses _get_low_memory has a branch for *)
LowTable ==
    (124..127) \cup {1040, 1041} \cup (1047..1053)
    \cup ((1024 + key_buffer_offset)..(1024 + key_buffer_offset + 31))
    \cup (1097..1101) \cup (1104..1122) \cup {1125, 1126}

(* C21: every address below the data segment that is not in the low-memory
   table reads as 0, by PEEK and in every state reached, whatever the screen
   and the keyboard are; the handler's -1 is never the value read. *)
C21_LowMemoryZero ==
    /\ (mres.op = "peek" /\ mres.err = "" /\ mres.addr < data_segment * 16
            /\ mres.addr \notin LowTable) =>
          mres.result = <<0>>
    /\ mres.op # "peek" =>
          \A a \in (0..(data_segment * 16 - 1)) \ LowTable : GetMemory(st, a) = 0

(* PEEK of an address next to the table after the keyboard state was poked *)
C21_Witness ==
    /\ mres.op = "peek"
    /\ mres.err = ""
    /\ mres.addr = 1086
    /\ mres.result = <<0>>
    /\ st.ring # EmptyRing
    /\ st.ring # OneKeyRing

----------------------------------------------------------------------------
(* OUT and INP on the parallel and serial ports, with and without streams *)

OutAddrs ==
    {COM1_BASE, COM1_BASE + 1, COM1_BASE + 3, COM1_BASE + 4, COM2_BASE, COM2_BASE + 3}
OutVals == {0, 12, 16, 131}
OtherOutAddrs == {PORT_LPT1, PORT_LPT2 + 2, PORT_GAME}
OtherOutVals == {12}
InpArgs == {COM1_BASE + 3, COM2_BASE + 3, COM2_BASE + 5, PORT_LPT1 + 1, PORT_LPT2 + 1, -1}
PortNext ==
    \/ \E addr \in OutAddrs, val \in OutVals : out_(addr, val)
    \/ \E addr \in OtherOutAddrs, val \in OtherOutVals : out_(addr, val)
    \/ \E num \in InpArgs : inp_(num)
PortSpecInit == MemInit /\ SoundInit("") /\ PortsInit
PortSpec == PortSpecInit /\ [][PortNext]_vars

(* the registers of the parallel and serial ports whose device has no stream *)
StreamlessRegisters ==
    UNION {IF stream_attached[lpt_device[n + 1]] THEN {}
           ELSE LET base == IF n = 0 THEN PORT_LPT1 ELSE PORT_LPT2 IN base..(base + 2)
           : n \in 0..1}
    \cup UNION {IF stream_attached[com_device[com_base[i].com_port_nr + 1]] THEN {}
                ELSE com_base[i].base_addr..(com_base[i].base_addr + 7)
                : i \in DOMAIN com_base}

(* C22: a port whose device has no stream reads as 0 on every register, and a
   write to one of its registers makes no device call and leaves the latches,
   divisors, break flags and every stream as they were. *)
C22_NoStream ==
    [][ /\ \A port \in StreamlessRegisters : inp(port) = 0
        /\ (pres'.op = "inp" /\ pres'.addr \in StreamlessRegisters) => pres'.last = 0
        /\ (pres'.op = "out" /\ pres'.addr \in StreamlessRegisters) =>
              /\ pres'.calls = {}
              /\ pres'.err = ""
              /\ UNCHANGED <<com_enable_baud_write, com_baud_divisor, com_break,
                             com_stream, lpt_stream>>
      ]_vars

(* a write to the line-control register of COM2:, which has no stream, on a
   machine where COM1: has one and was set up before *)
C22_Witness ==
    /\ pres.op = "out"
    /\ pres.addr = COM2_BASE + 3
    /\ pres.val = 131
    /\ ~stream_attached["COM2:"]
    /\ stream_attached["COM1:"]
    /\ com_enable_baud_write[0]
    /\ ~com_enable_baud_write[1]

(* C23: a write of any value 0..255 to the line-control register of a serial
   port with a stream completes and leaves the stream with a parity among
   S, M, E, O, N, 1 or 2 stop bits and a byte size in 5..8. *)
C23_LineControl ==
    (pres.op = "out" /\ pres.val \in 0..255
        /\ \E i \in DOMAIN com_base :
              /\ pres.addr = com_base[i].base_addr + 3
              /\ stream_attached[com_device[com_base[i].com_port_nr + 1]]) =>
       /\ pres.err = ""
       /\ \A n \in 0..1 :
             /\ com_stream[n].parity \in {"S", "M", "E", "O", "N"}
             /\ com_stream[n].stopbits \in {1, 2}
             /\ com_stream[n].bytesize \in 5..8

(* the serial port with a stream that has addr as its base or base+1 address *)
DivisorPort(addr) ==
    {com_base[i].com_port_nr : i \in {j \in DOMAIN com_base :
        /\ addr \in {com_base[j].base_addr, com_base[j].base_addr + 1}
        /\ stream_attached[com_device[com_base[j].com_port_nr + 1]]}}
BaseOf(n) == (CHOOSE i \in DOMAIN com_base : com_base[i].com_port_nr = n)

(* C24: a byte written to base or base+1 of a serial port changes the baud
   divisor only if the port's baud-write-enable latch is set: base replaces
   the low byte and base+1 the high byte, the divisor stays in 0..65535, the
   baud rate becomes 115200 \div divisor exactly when the new divisor is not
   0, and parity, byte size and stop bits stay.  Without the latch neither
   the divisor nor the stream changes; no other write changes a divisor. *)
C24_BaudDivisor ==
    [][ /\ \A n \in 0..1 : com_baud_divisor'[n] \in 0..65535
        /\ \A n \in 0..1 :
              (pres'.op = "out" /\ n \in DivisorPort(pres'.addr)) =>
                 LET old == com_baud_divisor[n]
                     new == com_baud_divisor'[n]
                     low == pres'.addr = com_base[BaseOf(n)].base_addr
                 IN  IF com_enable_baud_write[n]
                     THEN /\ new = IF low THEN (old \div 256) * 256 + pres'.val
                                   ELSE pres'.val * 256 + (old % 256)
                          /\ com_stream'[n] =
                                IF new # 0
                                THEN [com_stream[n] EXCEPT !.baudrate = 115200 \div new]
                                ELSE com_stream[n]
                          /\ (new # 0) <=> (pres'.calls # {})
                     ELSE /\ new = old
                          /\ com_stream'[n] = com_stream[n]
                          /\ pres'.calls = {}
        /\ \A n \in 0..1 :
              com_baud_divisor'[n] # com_baud_divisor[n] =>
                 /\ pres'.op = "out"
                 /\ n \in DivisorPort(pres'.addr)
                 /\ com_enable_baud_write[n]
      ]_vars

(* both bytes of the divisor of COM1: written: 12 * 256 + 131, 115200 \div 3203 = 35 *)
C24_Witness ==
    /\ pres.op = "out"
    /\ pres.addr = COM1_BASE + 1
    /\ com_baud_divisor[0] = 12 * 256 + 131
    /\ com_stream[0].baudrate = 35
    /\ com_stream[0].parity = "O"

(* the low-memory addresses _set_low_memory has a branch for *)
LowWritable ==
    {1047, 1050, 1052} \cup ((1024 + key_buffer_offset)..(1024 + key_buffer_offset + 31))

(* C25: a POKE below the data segment changes state only at the modifier
   byte 1047, the ring boundaries 1050 and 1052 and the ring slots
   1054..1085; at any other address it succeeds and every address peeks as
   before. *)
C25_LowPoke ==
    [][ (mres'.op = "poke" /\ mres'.val \in 0..255 /\ ~(protected /\ ~run_mode)) =>
          /\ mres'.err = ""
          /\ (mres'.addr \in 0..(data_segment * 16 - 1) /\ mres'.addr \notin LowWritable) =>
                /\ st' = st
                /\ \A a \in LowTable \cup {0, data_segment * 16, video_segment * 16} :
                      GetMemory(st', a) = GetMemory(st, a)
                /\ UNCHANGED <<segment, screen, stream_attached, _peek_values>>
          /\ (mres'.addr \in 0..(data_segment * 16 - 1) /\ st' # st) =>
                mres'.addr \in LowWritable
      ]_vars

(* a POKE to 1040, which PEEK has a branch for and POKE has not, after the
   keyboard state was poked *)
C25_Witness ==
    /\ mres.op = "poke"
    /\ mres.err = ""
    /\ mres.addr = 1040
    /\ st.mod = 36
    /\ GetMemory(st, 1040) = 38

----------------------------------------------------------------------------
(* PEEK and POKE with the segment at the top of its range *)

HighSegArgs == {None, Some(-1), Some(65535), Some(61440), Some(-4096)}
HighOffArgs == {-1, 0, 15, 16, 65535}
HighNext ==
    \/ \E seg \in HighSegArgs : def_seg_(seg)
    \/ \E num \in HighOffArgs : peek_(num)
    \/ \E num \in HighOffArgs, val \in {0, 255} : poke_(num, val)
HighSpecInit == MemInit /\ SoundInit("") /\ PortsInit
HighSpec == HighSpecInit /\ [][HighNext]_vars

(* C26: the address that PEEK and POKE hand to region dispatch is
   segment * 16 + offset and is an unsigned 20-bit value. *)
C26_EffectiveAddress ==
    (mres.op \in {"peek", "poke"} /\ mres.err = "") =>
        /\ \E offset \in 0..65535 : mres.addr = segment * 16 + offset
        /\ mres.addr \in 0..(2^20 - 1)

----------------------------------------------------------------------------
(* PLAY on a Tandy, where V is accepted, with numbers beyond the limits.  The
   queues stay far below 16 events, so wait_music never waits here. *)

MaxRangePlays == 2
RangeInputs ==
    { <<<<"O", "9", "B">>, <<"V", "9", "9", "G">>, <<"<", "<", "<", "<", "<", "C">>>>,
      <<<<"O", "-", "1", "C">>, <<"V", "-", "3", "A">>, <<">", ">", ">", "B">>>>,
      <<<<"O", "6", "V", "1", "5", "Z">>, <<"V", "0", "C", "#">>, <<>>>>,
      <<<<"O", "3", "E", "-">>, <<>>, <<"v", "7", "F">>>> }
RangeNext ==
    \/ \E mml_list \in RangeInputs : play_begin(mml_list, MaxRangePlays)
    \/ play_while
    \/ play_for
    \/ play_pad
    \/ wait_music_return
    \/ wait_all_music_yield
    \/ wait_all_music_return
    \/ reset
    \/ \E v \in Voices : RendererGet(v)
    \/ \E v \in Voices : RendererDone(v)
RangeSpecInit == MemFixed /\ SoundInit("tandy") /\ PortsInit
RangeSpec == RangeSpecInit /\ [][RangeNext]_vars

(* C27: every voice's octave is in 0..6 and its volume in 0..15 in every
   state, after plays that complete, plays that fail part-way and resets; the
   index octave * 12 + semitone of a named note is within the 84 entries of
   the note table. *)
C27_Ranges ==
    /\ \A v \in Voices :
          /\ play_state[v].octave \in 0..6
          /\ play_state[v].volume \in 0..15
    /\ sres.op = "note" =>
          /\ sres.semitone \in 0..11
          /\ (play_state[sres.voice].octave * 12 + sres.semitone) \in 0..83
          /\ sres.event.volume \in 0..15

(* a second play has failed part-way, the first having run O9 and <<<<< *)
C27_Witness ==
    /\ pl.nplays = 2
    /\ sres.op = "play_error"
    /\ play_state[0].octave = 6
    /\ play_state[0].volume = 15
    /\ play_state[1].volume = 0
    /\ play_state[2].octave = 0

----------------------------------------------------------------------------
(* SOUND on a Tandy: frequencies below 0, below 110 Hz and above *)

MaxEnq == 2
EnqVoices == {1, 2}
EnqFrequencies == {0 - Hz(5), Hz(50), Hz(440)}
EnqNext ==
    \/ \E v \in EnqVoices, f \in EnqFrequencies :
          play_sound_no_wait(f, Rat(1, 4), v, MaxEnq)
    \/ \E v \in EnqVoices : RendererGet(v)
    \/ \E v \in EnqVoices : RendererDone(v)
EnqSpecInit == MemFixed /\ SoundInit("tandy") /\ PortsInit
EnqSpec == EnqSpecInit /\ [][EnqNext]_vars

(* C28: a step that puts an event on a queue appends that one event to the
   queue of its voice and leaves the other queues, the play state and the
   mode as they were; the noise frequencies change only for voice 2 with a
   frequency that is not 0 after clamping, and then entries 3 and 7 become
   half of it. *)
C28_Enqueue ==
    [][ (\E q \in Queues : Len(tone_queue'[q]) > Len(tone_queue[q])) =>
          LET voice == sres'.voice
              event == sres'.event
          IN  /\ sres'.op = "play_sound_no_wait"
              /\ tone_queue'[voice] = Append(tone_queue[voice], event)
              /\ \A q \in Queues \ {voice} : tone_queue'[q] = tone_queue[q]
              /\ UNCHANGED <<play_state, foreground, message_queue, capabilities, sound_on>>
              /\ event.frequency >= 0
              /\ ~(event.frequency > 0 /\ event.frequency < Hz(110))
              /\ IF voice = 2 /\ event.frequency # 0
                 THEN /\ noise_freq'[3] = event.frequency \div 2
                      /\ noise_freq'[7] = event.frequency \div 2
                      /\ \A i \in DOMAIN noise_freq \ {3, 7} : noise_freq'[i] = noise_freq[i]
                 ELSE noise_freq' = noise_freq
      ]_vars

(* a 50 Hz tone put on voice 2 behind another one: it is queued as 110 Hz and
   the linked noise sources are at 55 Hz *)
C28_Witness ==
    /\ sres.op = "play_sound_no_wait"
    /\ sres.voice = 2
    /\ Len(tone_queue[2]) = 2
    /\ tone_queue[2][2].frequency = Hz(110)
    /\ tone_queue[2][1].frequency = 0
    /\ noise_freq[3] = Hz(55)
    /\ noise_freq[7] = Hz(55)

(* C29: with tone events put by play_sound only (PLAY and its padding), no
   tone queue ever holds more than 17 events, and every queue holds at most
   16 each time wait_music returns, whatever the renderer does meanwhile. *)
C29_QueueDepth ==
    /\ [](\A v \in Voices : Len(tone_queue[v]) <= 17)
    /\ [][ (spc = "wait_music" /\ spc' # "wait_music") =>
              \A v \in Voices : Len(tone_queue'[v]) <= 16 ]_vars

(* wait_music has returned with 16 events left of the 17 that were put on
   voice 0, the renderer having taken one *)
C29_Witness ==
    /\ sres.op = "wait_return"
    /\ Len(tone_queue[0]) = 16
    /\ Len(pl.enq[1]) = 17
    /\ rtaken[0] = 1

(* the event stop_all_sound has removed from queue v and not yet marked done *)
StopHeld(v) == IF spc = "stop_task_done" /\ sframe.q = v THEN 1 ELSE 0

(* C30: under every interleaving of puts, the renderer's get and task_done
   and the drain of stop_all_sound, the unfinished count of each queue is the
   number of events still queued plus the number taken by the renderer and not
   yet marked done, the event stop_all_sound holds between its own get and
   its own task_done included: stop_all_sound marks done exactly the events it
   removed.  Hence wherever the interpreter can evaluate is_playing (it is not
   inside that get/task_done pair), an empty queue whose renderer holds
   nothing is not playing, and the loop test of wait_all_music is false once
   this is so for the three tone voices. *)
C30_Unfinished ==
    /\ \A v \in Queues :
          unfinished_tasks[v] = Len(tone_queue[v]) + rtaken[v] + StopHeld(v)
    /\ \A v \in Queues :
          (spc # "stop_task_done" /\ tone_queue[v] = <<>> /\ rtaken[v] = 0)
              => ~IsPlaying(v)
    /\ (spc # "stop_task_done"
          /\ \A v \in Voices : tone_queue[v] = <<>> /\ rtaken[v] = 0)
              => ~WaitAllMusicCond

(* stop_all_sound has removed the second event of voice 0 while the renderer
   holds the first one *)
C30_Witness ==
    /\ spc = "stop_task_done"
    /\ sframe.q = 0
    /\ rtaken[0] = 1
    /\ tone_queue[0] = <<>>
    /\ unfinished_tasks[0] = 2

(* Both serial ports with a stream, or only the second one *)
LatchConfigs ==
    {[tandy |-> FALSE, screen |-> TextScreen, ring |-> EmptyRing,
      streams |-> {"COM1:", "COM2:"}, peek_values |-> <<>>],
     [tandy |-> FALSE, screen |-> TextScreen, ring |-> EmptyRing,
      streams |-> {"COM2:"}, peek_values |-> <<>>]}
LatchAddrs ==
    {COM1_BASE, COM1_BASE + 1, COM1_BASE + 3, COM2_BASE, COM2_BASE + 3}
LatchVals == {12, 131, 208}
LatchNext == \E addr \in LatchAddrs, val \in LatchVals : out_(addr, val)
LatchSpecInit == (\E cfg \in LatchConfigs : MemInitOf(cfg)) /\ SoundInit("") /\ PortsInit
LatchSpec == LatchSpecInit /\ [][LatchNext]_vars

(* the serial port one of whose registers base..base+7 is addr *)
PortOf(addr) ==
    {com_base[i].com_port_nr : i \in {j \in DOMAIN com_base :
        addr \in com_base[j].base_addr..(com_base[j].base_addr + 7)}}

(* C31: the baud-write-enable latch of a serial port is never cleared: a
   line-control write with bit 7 set to a port with a stream sets it, and no
   later write, a line-control write with bit 7 clear included, resets it, so
   every later write to base or base+1 of that port replaces a byte of its
   baud divisor; a write to a register of one serial port leaves the latch,
   the divisor and the break flag of the other port as they were. *)
C31_Latch ==
    [][ /\ \A n \in 0..1 : com_enable_baud_write[n] => com_enable_baud_write'[n]
        /\ \A n \in 0..1 :
              (pres'.op = "out" /\ n \in PortOf(pres'.addr)
                 /\ stream_attached[com_device[n + 1]]) =>
                 LET base == com_base[BaseOf(n)].base_addr
                     old == com_baud_divisor[n]
                 IN  /\ (pres'.addr = base + 3 /\ pres'.val \div 128 = 1) =>
                           com_enable_baud_write'[n]
                     /\ (com_enable_baud_write[n] /\ pres'.addr = base) =>
                           com_baud_divisor'[n] = (old \div 256) * 256 + pres'.val
                     /\ (com_enable_baud_write[n] /\ pres'.addr = base + 1) =>
                           com_baud_divisor'[n] = pres'.val * 256 + (old % 256)
        /\ \A n \in 0..1 :
              (pres'.op = "out" /\ n \in PortOf(pres'.addr)) =>
                 \A m \in (0..1) \ {n} :
                    /\ com_enable_baud_write'[m] = com_enable_baud_write[m]
                    /\ com_baud_divisor'[m] = com_baud_divisor[m]
                    /\ com_break'[m] = com_break[m]
      ]_vars

(* COM1: was latched, then had its line-control register written with bit 7
   clear (odd parity), and a later write to its base address still went to
   its divisor; COM2:, with a stream too, had its base address written while
   its own latch was never set *)
C31_Witness ==
    /\ stream_attached["COM1:"] /\ stream_attached["COM2:"]
    /\ pres.op = "out" /\ pres.addr = COM2_BASE /\ pres.val = 131
    /\ com_enable_baud_write[0] /\ ~com_enable_baud_write[1]
    /\ com_stream[0].parity = "O"
    /\ com_baud_divisor[0] = 12 /\ com_stream[0].baudrate = 9600
    /\ com_baud_divisor[1] = 0 /\ com_stream[1].baudrate = 300

====
